---- MODULE Spec2Model ----
(***************************************************************************)
(* The canvas store of src/src/store/canvasStore.ts (the hierarchical      *)
(* store, lines 289-1527): the shapes array, the selection, the gesture    *)
(* state, the flatten cache and the timers getFlattenedShapes schedules.   *)
(* Every store method is one action; the pure helpers are operators.       *)
(***************************************************************************)
EXTENDS Integers, Sequences, FiniteSets, TLC

(* ------------------------------------------------------------------ *)
(* Bounds of the model                                                 *)
(* ------------------------------------------------------------------ *)

\* how many ids uuidv4 hands out in one run
MaxIds == 4
\* how many deferred cache writes may be pending at once
MaxTimers == 1
\* how many calls and timer callbacks one run makes
MaxCalls == 5
\* how long a childIds list may grow (re-parenting appends without looking)
MaxChildIds == 2

(* ------------------------------------------------------------------ *)
(* Values                                                              *)
(* ------------------------------------------------------------------ *)

\* null / undefined / absent id (all falsy in the source)
NoId == 0

VARIABLES
    shapes,            \* Shape[]: the store's array, in insertion order
    selectedShapeId,   \* string | null
    selectedShapeIds,  \* string[]
    selectionState,    \* { selectedShapeId, activeHandle, initialMousePos, initialShapeBounds }
    cache,             \* { flattenedShapes, needsUpdate }
    timers,            \* pending setTimeout(0) callbacks of getFlattenedShapes, oldest first
    nextId,            \* the next id uuidv4 returns
    calls,             \* how many calls and callbacks have run
    last               \* the call that produced this state: its name, argument and outcome

vars == <<shapes, selectedShapeId, selectedShapeIds, selectionState, cache, timers, nextId, calls, last>>

(* ------------------------------------------------------------------ *)
(* Array helpers                                                       *)
(* ------------------------------------------------------------------ *)

Range(s) == {s[i] : i \in 1..Len(s)}

\* Array.prototype.findIndex on the id; 0 stands for -1
findIndex(shps, id) ==
    IF \E i \in 1..Len(shps) : shps[i].id = id
    THEN CHOOSE i \in 1..Len(shps) :
            shps[i].id = id /\ \A j \in 1..(i - 1) : shps[j].id # id
    ELSE 0

\* ids.map(id => shps.find(s => s.id === id)).filter(Boolean)
RECURSIVE resolve(_, _)
resolve(shps, ids) ==
    IF ids = <<>> THEN <<>>
    ELSE LET i == findIndex(shps, Head(ids))
         IN  (IF i = 0 THEN <<>> ELSE <<shps[i]>>) \o resolve(shps, Tail(ids))

\* ids.filter(c => c !== id)
without(ids, id) == SelectSeq(ids, LAMBDA c : c # id)

\* ids.filter(c => !dead.includes(c))
withoutAll(ids, dead) == SelectSeq(ids, LAMBDA c : c \notin dead)

MinOf(S) == CHOOSE m \in S : \A n \in S : m <= n
MaxOf(S) == CHOOSE m \in S : \A n \in S : m >= n

\* value of an optional key of a partial shape or patch
Has(p, k) == k \in DOMAIN p
Get(p, k, d) == IF k \in DOMAIN p THEN p[k] ELSE d

(* ------------------------------------------------------------------ *)
(* Helpers of the store                                                *)
(* ------------------------------------------------------------------ *)

\* the number of shapes plus 1
getNextZIndex_count(shps) == Len(shps) + 1

\* getNextZIndex: max over (shape.zIndex || 0), starting from 0, plus 1
getNextZIndex(shps) ==
    MaxOf({0} \cup {shps[i].zIndex : i \in 1..Len(shps)}) + 1

\* calculateBoundsForChildren: size of the box around the local boxes
calculateBoundsForChildren(ss) ==
    IF Len(ss) = 0 THEN [width |-> 0, height |-> 0]
    ELSE LET I == 1..Len(ss)
             minX == MinOf({ss[i].x : i \in I})
             minY == MinOf({ss[i].y : i \in I})
             maxX == MaxOf({ss[i].x + ss[i].width : i \in I})
             maxY == MaxOf({ss[i].y + ss[i].height : i \in I})
         IN  [width |-> maxX - minX, height |-> maxY - minY]

\* shape.absoluteTransform?.x ?? shape.x
absOrLocalX(s) == IF Has(s, "absoluteTransform") THEN s.absoluteTransform.x ELSE s.x
absOrLocalY(s) == IF Has(s, "absoluteTransform") THEN s.absoluteTransform.y ELSE s.y

\* a box that starts at the first shape instead of the least x and y
calculateGroupBounds_first(ss) ==
    IF Len(ss) = 0 THEN [x |-> 0, y |-> 0, width |-> 0, height |-> 0]
    ELSE [x |-> ss[1].x, y |-> ss[1].y, width |-> ss[1].width, height |-> ss[1].height]

\* calculateGroupBounds: box around the shapes' boxes
calculateGroupBounds(ss) ==
    IF Len(ss) = 0 THEN [x |-> 0, y |-> 0, width |-> 0, height |-> 0]
    ELSE LET I == 1..Len(ss)
             minX == MinOf({absOrLocalX(ss[i]) : i \in I})
             minY == MinOf({absOrLocalY(ss[i]) : i \in I})
             maxX == MaxOf({absOrLocalX(ss[i]) + ss[i].width : i \in I})
             maxY == MaxOf({absOrLocalY(ss[i]) + ss[i].height : i \in I})
         IN  [x |-> minX, y |-> minY, width |-> maxX - minX, height |-> maxY - minY]

\* the store's data as one value, so that methods calling methods compose
Store ==
    [shapes |-> shapes, selectedShapeId |-> selectedShapeId,
     selectedShapeIds |-> selectedShapeIds, selectionState |-> selectionState,
     cache |-> cache, nextId |-> nextId]

\* the shape addShape builds from a partial shape (lines 650-675); the id is
\* always a fresh one from generateId
newShapeOf(S, p) ==
    [id          |-> S.nextId,
     type        |-> Get(p, "type", "rectangle"),
     x           |-> Get(p, "x", 0),
     y           |-> Get(p, "y", 0),
     width       |-> Get(p, "width", 100),
     height      |-> Get(p, "height", 100),
     rotation    |-> Get(p, "rotation", 0),
     zIndex      |-> IF Get(p, "zIndex", 0) # 0 THEN p.zIndex
                     ELSE getNextZIndex(S.shapes),
     isLocked    |-> Get(p, "isLocked", FALSE),
     parentId    |-> Get(p, "parentId", NoId),
     childIds    |-> Get(p, "childIds", <<>>),
     isContainer |-> Get(p, "isContainer", FALSE),
     clipContent |-> Get(p, "clipContent", FALSE) \/ Get(p, "type", "none") = "frame",
     autoResize  |-> Get(p, "autoResize", FALSE) \/ Get(p, "type", "none") = "group"]

\* addShape (lines 642-702): append the id to the parent's childIds when the
\* parent exists, append the shape, select it
addShape(S, p) ==
    LET n  == newShapeOf(S, p)
        pi == IF n.parentId = NoId THEN 0 ELSE findIndex(S.shapes, n.parentId)
        updatedShapes ==
            IF pi = 0 THEN S.shapes
            ELSE [S.shapes EXCEPT ![pi].childIds = Append(@, n.id)]
    IN  [S EXCEPT !.shapes = Append(updatedShapes, n),
                  !.selectedShapeId = n.id,
                  !.selectedShapeIds = <<n.id>>,
                  !.nextId = S.nextId + 1]

\* { ...currentShape, ...updatedProps }
merge(cur, patch) ==
    [k \in (DOMAIN cur) \cup (DOMAIN patch) |->
        IF k \in DOMAIN patch THEN patch[k] ELSE cur[k]]

\* the width and height of an auto-resize group are set to the box around
\* the shapes named by ids (lines 736-753, 871-885, 903-915); the group is
\* left alone when it is no auto-resize group or no named shape exists
autoResizeGroup(shps, gi, isGroup, ids) ==
    LET cs == resolve(shps, ids)
        b  == calculateBoundsForChildren(cs)
    IN  IF isGroup /\ Len(cs) > 0
        THEN [shps EXCEPT ![gi].width = b.width, ![gi].height = b.height]
        ELSE shps

isAutoGroup(s) == s.type = "group" /\ s.autoResize

\* parentScaleX: updatedProps.width / currentShape.width as a fraction
scaled(v, num, den) == (v * num) \div den

\* transformChildren (lines 788-842), the recursion unrolled over a list of
\* <<child id, call depth>>: each child gets the translation, or the scale
\* when there is one, and the rotation delta; then its own children do.
\* A call depth beyond the number of shapes means a cycle of containers:
\* the source recurses until the call stack is exhausted and throws.
RECURSIVE transformChildren(_, _, _)
transformChildren(shps, work, d) ==
    IF work = <<>> THEN [ok |-> TRUE, shapes |-> shps]
    ELSE LET cid   == Head(work)[1]
             depth == Head(work)[2]
             ci    == findIndex(shps, cid)
         IN  IF depth > Len(shps) THEN [ok |-> FALSE, shapes |-> shps]
             ELSE IF ci = 0 THEN transformChildren(shps, Tail(work), d)
             ELSE LET child == shps[ci]
                      hasScale == d.sxNum # d.sxDen \/ d.syNum # d.syDen
                      newX == IF hasScale THEN scaled(child.x, d.sxNum, d.sxDen)
                              ELSE child.x + d.dx
                      newY == IF hasScale THEN scaled(child.y, d.syNum, d.syDen)
                              ELSE child.y + d.dy
                      newRotation == child.rotation + d.drot
                      next == [shps EXCEPT ![ci].x = newX, ![ci].y = newY,
                                           ![ci].rotation = newRotation]
                      below == IF child.isContainer /\ Len(child.childIds) > 0
                               THEN [k \in 1..Len(child.childIds) |->
                                        <<child.childIds[k], depth + 1>>]
                               ELSE <<>>
                  IN  transformChildren(next, below \o Tail(work), d)

\* the deltas updateShape derives from a patch (lines 770-785)
deltasOf(cur, patch) ==
    [dx    |-> IF Has(patch, "x") THEN patch.x - cur.x ELSE 0,
     dy    |-> IF Has(patch, "y") THEN patch.y - cur.y ELSE 0,
     sxNum |-> IF Has(patch, "width") /\ cur.width # 0 THEN patch.width ELSE 1,
     sxDen |-> IF Has(patch, "width") /\ cur.width # 0 THEN cur.width ELSE 1,
     syNum |-> IF Has(patch, "height") /\ cur.height # 0 THEN patch.height ELSE 1,
     syDen |-> IF Has(patch, "height") /\ cur.height # 0 THEN cur.height ELSE 1,
     drot  |-> IF Has(patch, "rotation") THEN patch.rotation - cur.rotation ELSE 0]

positionChanged(patch) ==
    Has(patch, "x") \/ Has(patch, "y") \/ Has(patch, "rotation")
        \/ Has(patch, "width") \/ Has(patch, "height")

\* lines 726-756: the parent the shape had before the patch is resized
\* around its children when it is an auto-resize group
resizeParentOf(shps, cur) ==
    LET pi == IF cur.parentId = NoId THEN 0 ELSE findIndex(shps, cur.parentId)
    IN  IF pi = 0 THEN shps
        ELSE autoResizeGroup(shps, pi, isAutoGroup(shps[pi]), shps[pi].childIds)

\* lines 758-854: a container with children whose position, size or
\* rotation is patched rewrites its descendants
cascade(shps, cur, upd, patch) ==
    IF upd.isContainer /\ Len(upd.childIds) > 0 /\ positionChanged(patch)
    THEN transformChildren(shps,
            [k \in 1..Len(upd.childIds) |-> <<upd.childIds[k], 1>>],
            deltasOf(cur, patch))
    ELSE [ok |-> TRUE, shapes |-> shps]

\* lines 859-888: the id leaves the old parent's childIds
leaveOldParent(shps, id, oldParentId) ==
    LET oi == IF oldParentId = NoId THEN 0 ELSE findIndex(shps, oldParentId)
    IN  IF oi = 0 THEN shps
        ELSE LET oldParent == shps[oi]
                 rest == without(oldParent.childIds, id)
                 u    == [shps EXCEPT ![oi].childIds = rest]
             IN  autoResizeGroup(u, oi, isAutoGroup(oldParent), rest)

\* lines 890-918: the id joins the new parent's childIds
joinNewParent(shps, id, newParentId) ==
    LET ni == IF newParentId = NoId THEN 0 ELSE findIndex(shps, newParentId)
    IN  IF ni = 0 THEN shps
        ELSE LET newParent == shps[ni]
                 all == Append(newParent.childIds, id)
                 u   == [shps EXCEPT ![ni].childIds = all]
             IN  autoResizeGroup(u, ni, isAutoGroup(newParent), all)

\* lines 856-919: the parent change, taken only when the patch carries a
\* parentId that is not undefined and differs from the old one
changeParent(shps, id, oldParentId, newParentId) ==
    IF newParentId # NoId /\ oldParentId # newParentId
    THEN joinNewParent(leaveOldParent(shps, id, oldParentId), id, newParentId)
    ELSE shps

\* an updateShape that marks the cache whether or not it finds the shape
updateShape_marking(S, id, patch) ==
    [ok |-> TRUE, store |-> [S EXCEPT !.cache.needsUpdate = TRUE]]

\* updateShape (lines 705-929). ok = FALSE: the call threw and wrote nothing.
updateShape(S, id, patch) ==
    LET i == findIndex(S.shapes, id)
    IN  IF i = 0 THEN [ok |-> TRUE, store |-> S]
        ELSE LET cur  == S.shapes[i]
                 upd  == merge(cur, patch)
                 u1   == [S.shapes EXCEPT ![i] = upd]
                 u2   == resizeParentOf(u1, cur)
                 c    == cascade(u2, cur, upd, patch)
                 u3   == changeParent(c.shapes, id, cur.parentId,
                                      Get(patch, "parentId", NoId))
             IN  IF ~c.ok THEN [ok |-> FALSE, store |-> S]
                 ELSE [ok |-> TRUE,
                       store |-> [S EXCEPT !.shapes = u3,
                                           !.cache.needsUpdate = TRUE]]

\* getDescendantIds (lines 521-537), the recursion unrolled over a list of
\* <<child id, call depth>>: every child id is pushed, then its own
\* descendants. ok = FALSE: a cycle in childIds exhausts the call stack.
RECURSIVE collectDescendants(_, _, _)
collectDescendants(shps, work, result) ==
    IF work = <<>> THEN [ok |-> TRUE, ids |-> result]
    ELSE LET cid   == Head(work)[1]
             depth == Head(work)[2]
             ci    == findIndex(shps, cid)
             below == IF ci = 0 THEN <<>>
                      ELSE [k \in 1..Len(shps[ci].childIds) |->
                               <<shps[ci].childIds[k], depth + 1>>]
         IN  IF depth > Len(shps) THEN [ok |-> FALSE, ids |-> result]
             ELSE collectDescendants(shps, below \o Tail(work), Append(result, cid))

getDescendantIds(shps, id) ==
    LET i == findIndex(shps, id)
    IN  IF i = 0 THEN [ok |-> TRUE, ids |-> <<>>]
        ELSE collectDescendants(shps,
                [k \in 1..Len(shps[i].childIds) |-> <<shps[i].childIds[k], 1>>],
                <<>>)

\* lines 941-953: the parent named by the shape's parentId loses the id
detachFromParent(shps, id, parentId) ==
    IF parentId = NoId THEN shps
    ELSE [k \in 1..Len(shps) |->
            IF shps[k].id = parentId
            THEN [shps[k] EXCEPT !.childIds = without(@, id)]
            ELSE shps[k]]

\* deleteShape (lines 932-974). ok = FALSE: getDescendantIds threw.
deleteShape(S, id) ==
    LET i == findIndex(S.shapes, id)
        d == getDescendantIds(S.shapes, id)
        idsToDelete == {id} \cup Range(d.ids)
        detached == detachFromParent(S.shapes, id, S.shapes[i].parentId)
        updatedShapes == SelectSeq(detached, LAMBDA s : s.id \notin idsToDelete)
    IN  IF i = 0 THEN [ok |-> TRUE, store |-> S]
        ELSE IF ~d.ok THEN [ok |-> FALSE, store |-> S]
        ELSE [ok |-> TRUE,
              store |-> [S EXCEPT
                !.shapes = updatedShapes,
                !.selectedShapeId =
                    IF S.selectedShapeId \in idsToDelete THEN NoId
                    ELSE S.selectedShapeId,
                !.selectedShapeIds = withoutAll(S.selectedShapeIds, idsToDelete),
                !.cache.needsUpdate = TRUE]]

\* the group shape createGroup builds (lines 1144-1166)
groupShapeOf(groupId, bounds, shapeIds, shapesToGroup) ==
    [id          |-> groupId,
     type        |-> "group",
     x           |-> bounds.x,
     y           |-> bounds.y,
     width       |-> bounds.width,
     height      |-> bounds.height,
     rotation    |-> 0,
     zIndex      |-> MaxOf({shapesToGroup[k].zIndex : k \in 1..Len(shapesToGroup)}) + 1,
     isLocked    |-> FALSE,
     parentId    |-> NoId,
     childIds    |-> shapeIds,
     isContainer |-> TRUE,
     clipContent |-> FALSE,
     autoResize  |-> TRUE]

\* lines 1168-1180: a grouped shape refers to the group and becomes
\* relative to the group's origin
intoGroup(s, groupId, bounds) ==
    [s EXCEPT !.parentId = groupId, !.x = s.x - bounds.x, !.y = s.y - bounds.y]

\* createGroup (lines 1124-1191); the store is returned as it is when the
\* call returns early
createGroup(S) ==
    LET shapeIds == S.selectedShapeIds
        shapesToGroup == SelectSeq(S.shapes, LAMBDA s : s.id \in Range(shapeIds))
        bounds ==  calculateGroupBounds(shapesToGroup)
        groupId == S.nextId
        updatedShapes ==
            [k \in 1..Len(S.shapes) |->
                IF S.shapes[k].id \in Range(shapeIds)
                THEN intoGroup(S.shapes[k], groupId, bounds)
                ELSE S.shapes[k]]
    IN  IF Len(shapeIds) < 2 \/ Len(shapesToGroup) < 2 THEN S
        ELSE IF \E k \in 1..Len(shapesToGroup) : shapesToGroup[k].parentId # NoId
        THEN S
        ELSE [S EXCEPT
                !.shapes = Append(updatedShapes,
                    groupShapeOf(groupId, bounds, shapeIds, shapesToGroup)),
                !.selectedShapeId = groupId,
                !.selectedShapeIds = <<groupId>>,
                !.cache.needsUpdate = TRUE,
                !.nextId = S.nextId + 1]

\* a child that loses its parent and keeps its group-local position
outOfGroup_local(s, group) ==
    [s EXCEPT !.parentId = NoId]

\* lines 1200-1211: a child of the group loses its parent and gets the
\* group's origin added back
outOfGroup(s, group) ==
    [s EXCEPT !.parentId = NoId, !.x = s.x + group.x, !.y = s.y + group.y]

\* an ungroup guard that asks only for the shape to be in the store
canUngroup_any(shps, groupId) == findIndex(shps, groupId) # 0

\* whether ungroup acts (line 1198)
canUngroup(shps, groupId) ==
    LET gi == findIndex(shps, groupId)
    IN  gi # 0 /\ shps[gi].isContainer /\ Len(shps[gi].childIds) > 0

\* ungroup (lines 1194-1223)
ungroup(S, groupId) ==
    LET gi == findIndex(S.shapes, groupId)
        updatedShapes ==
            [k \in 1..Len(S.shapes) |->
                IF S.shapes[k].parentId = groupId
                THEN outOfGroup(S.shapes[k], S.shapes[gi])
                ELSE S.shapes[k]]
    IN  IF ~canUngroup(S.shapes, groupId) THEN S
        ELSE [S EXCEPT
                !.shapes = SelectSeq(updatedShapes, LAMBDA s : s.id # groupId),
                !.selectedShapeId = NoId,
                !.selectedShapeIds = <<>>,
                !.cache.needsUpdate = TRUE]

\* moveShapeToParent (lines 1226-1235): null becomes undefined; the patch
\* always carries the parentId key
moveShapeToParent(S, shapeId, parentId) ==
    IF findIndex(S.shapes, shapeId) = 0 THEN [ok |-> TRUE, store |-> S]
    ELSE updateShape(S, shapeId, [parentId |-> parentId])

\* setSelectedShapeId (lines 998-1008)
setSelectedShapeId(S, id) ==
    [S EXCEPT !.selectedShapeId = id, !.selectionState.selectedShapeId = id]

\* the highest zIndex in the store, 0 for an empty store (lines 1091-1094)
highestZIndex(shps) == MaxOf({0} \cup {shps[k].zIndex : k \in 1..Len(shps)})

\* createFrame (lines 1089-1121): the frame gets an id of its own, addShape
\* stores it under another fresh id, and the frame's own id is selected
createFrame(S, params) ==
    LET frameId == S.nextId
        newFrame == [id |-> frameId, type |-> "frame",
                     x |-> params.x, y |-> params.y,
                     width  |-> IF Get(params, "width", 0) # 0 THEN params.width ELSE 300,
                     height |-> IF Get(params, "height", 0) # 0 THEN params.height ELSE 200,
                     rotation |-> 0, isLocked |-> FALSE, isContainer |-> TRUE,
                     clipContent |-> TRUE, autoResize |-> FALSE, childIds |-> <<>>,
                     zIndex |-> highestZIndex(S.shapes) + 1]
    IN  setSelectedShapeId(addShape([S EXCEPT !.nextId = S.nextId + 1], newFrame),
                           frameId)

\* a reorderShapes that numbers the named shapes from the front of the list
reorderShapes_ranked(S, newOrder) ==
    LET rank(id) == MaxOf({k \in 1..Len(newOrder) : newOrder[k] = id})
    IN  [S EXCEPT
            !.shapes = [k \in 1..Len(S.shapes) |->
                IF S.shapes[k].id \in Range(newOrder)
                THEN [S.shapes[k] EXCEPT !.zIndex = rank(S.shapes[k].id)]
                ELSE S.shapes[k]],
            !.cache.needsUpdate = TRUE]

\* reorderShapes (lines 1451-1473): zIndex = length - index (0-based), the
\* last occurrence of an id in newOrder deciding
reorderShapes(S, newOrder) ==
    LET n == Len(newOrder)
        zOf(id) == n - (MaxOf({k \in 1..n : newOrder[k] = id}) - 1)
    IN  [S EXCEPT
            !.shapes = [k \in 1..Len(S.shapes) |->
                IF S.shapes[k].id \in Range(newOrder)
                THEN [S.shapes[k] EXCEPT !.zIndex = zOf(S.shapes[k].id)]
                ELSE S.shapes[k]],
            !.cache.needsUpdate = TRUE]

\* the copy duplicateSelectedShapes hands to addShape (lines 1492-1499)
duplicateOf(shape, newId) ==
    [shape EXCEPT !.id = newId, !.x = shape.x + 10, !.y = shape.y + 10,
                  !.childIds = <<>>]

\* lines 1488-1503: each copy gets an id of its own (kept in newShapeIds
\* and idMap) and is handed to addShape
RECURSIVE addDuplicates(_, _, _)
addDuplicates(S, todo, newShapeIds) ==
    IF todo = <<>> THEN [store |-> S, newShapeIds |-> newShapeIds]
    ELSE LET newId == S.nextId
             S1 == addShape([S EXCEPT !.nextId = S.nextId + 1],
                            duplicateOf(Head(todo), newId))
         IN  addDuplicates(S1, Tail(todo), Append(newShapeIds, newId))

\* lines 1506-1519: the copy of a container is patched with the ids of the
\* copies of its children; originals[k] was copied under newShapeIds[k]
RECURSIVE relinkDuplicates(_, _, _, _)
relinkDuplicates(S, originals, newShapeIds, k) ==
    IF k > Len(originals) THEN S
    ELSE LET idMap(id) ==
                 IF \E j \in 1..Len(originals) : originals[j].id = id
                 THEN newShapeIds[CHOOSE j \in 1..Len(originals) : originals[j].id = id]
                 ELSE NoId
             kept == SelectSeq(originals[k].childIds, LAMBDA c : idMap(c) # NoId)
             newChildIds == [j \in 1..Len(kept) |-> idMap(kept[j])]
             S1 == IF Len(newChildIds) > 0
                   THEN updateShape(S, newShapeIds[k], [childIds |-> newChildIds]).store
                   ELSE S
         IN  relinkDuplicates(S1, originals, newShapeIds, k + 1)

\* duplicateSelectedShapes (lines 1476-1526)
duplicateSelectedShapes(S) ==
    LET shapesToDuplicate ==
            SelectSeq(S.shapes, LAMBDA s : s.id \in Range(S.selectedShapeIds))
        added == addDuplicates(S, shapesToDuplicate, <<>>)
        linked == relinkDuplicates(added.store, shapesToDuplicate, added.newShapeIds, 1)
    IN  IF Len(S.selectedShapeIds) = 0 THEN S
        ELSE [linked EXCEPT
                !.selectedShapeIds = added.newShapeIds,
                !.selectedShapeId =
                    IF Len(added.newShapeIds) > 0 THEN added.newShapeIds[1] ELSE NoId]

\* toggleShapeSelection (lines 1018-1036)
toggleShapeSelection(S, id) ==
    IF id \in Range(S.selectedShapeIds)
    THEN [S EXCEPT !.selectedShapeIds = without(@, id),
                   !.selectedShapeId = IF @ = id THEN NoId ELSE @]
    ELSE [S EXCEPT !.selectedShapeIds = Append(@, id), !.selectedShapeId = id]

\* startResizing (lines 1238-1251)
startResizing(S, id, handle, mousePos, shapeBounds) ==
    [S EXCEPT !.selectionState =
                [selectedShapeId |-> id, activeHandle |-> handle,
                 initialMousePos |-> <<mousePos>>,
                 initialShapeBounds |-> <<shapeBounds>>],
              !.cache.needsUpdate = TRUE]

\* an endResizing that clears the handle and keeps the anchor
endResizing_handle(S) == [S EXCEPT !.selectionState.activeHandle = "none"]

\* endResizing (lines 1432-1440)
endResizing(S) ==
    [S EXCEPT !.selectionState.activeHandle = "none",
              !.selectionState.initialMousePos = <<>>,
              !.selectionState.initialShapeBounds = <<>>]

\* the non-finite values of a number of the source, written as integers
\* that no finite computation of the model comes near
Infinity == 1000000

NaN == 2 * Infinity

isFinite(v) == -Infinity < v /\ v < Infinity

\* a + b
add(a, b) ==
    IF a = NaN \/ b = NaN THEN NaN
    ELSE IF isFinite(a) /\ isFinite(b) THEN a + b
    ELSE IF isFinite(a) THEN b
    ELSE IF isFinite(b) THEN a
    ELSE IF a = b THEN a ELSE NaN

\* -a
neg(a) == IF a = NaN THEN NaN ELSE -a

\* a - b
sub(a, b) == add(a, neg(b))

\* a / 2, for the even numbers of the model
half(a) == IF isFinite(a) THEN a \div 2 ELSE a

Abs(n) == IF n < 0 THEN -n ELSE n

\* the % of the source: the remainder takes the sign of the dividend
jsRem(a, n) ==
    IF ~isFinite(a) THEN NaN
    ELSE IF a >= 0 THEN a % n ELSE -((-a) % n)

\* Math.atan2(dy, dx) in degrees, for the directions whose angle is a
\* multiple of 45
atan2d(dy, dx) ==
    IF dy = NaN \/ dx = NaN THEN NaN
    ELSE IF ~isFinite(dx) /\ isFinite(dy)
    THEN IF dx > 0 THEN 0 ELSE IF dy >= 0 THEN 180 ELSE -180
    ELSE IF ~isFinite(dy) /\ isFinite(dx)
    THEN IF dy > 0 THEN 90 ELSE -90
    ELSE CASE dy = 0 /\ dx >= 0       -> 0
           [] dy = 0 /\ dx < 0        -> 180
           [] dx = 0 /\ dy > 0        -> 90
           [] dx = 0 /\ dy < 0        -> -90
           [] dx > 0 /\ dy = dx       -> 45
           [] dx < 0 /\ dy = -dx      -> 135
           [] dx < 0 /\ dy = dx       -> -135
           [] dx > 0 /\ dy = -dx      -> -45

\* calculateRotationAngle (lines 392-394)
calculateRotationAngle(center, point) ==
    atan2d(sub(point.y, center.y), sub(point.x, center.x))

\* scaledDelta / aspectRatio with aspectRatio = width / height (line 1337)
\* and a finite scaledDelta >= 0: not a number when the ratio is not one
\* or when 0 is divided by 0, 0 when the ratio is infinite, infinite with
\* the sign of the ratio when the ratio is +0 or -0, and otherwise
\* scaledDelta * height / width, which the inputs keep whole
overAspect(scaledDelta, b) ==
    LET w == b.width
        h == b.height
    IN  IF w = NaN \/ h = NaN THEN NaN
        ELSE IF ~isFinite(w) /\ ~isFinite(h) THEN NaN
        ELSE IF w = 0 /\ h = 0 THEN NaN
        ELSE IF h = 0 \/ ~isFinite(w) THEN 0
        ELSE IF w = 0 \/ ~isFinite(h)
        THEN IF scaledDelta = 0 THEN NaN
             ELSE IF (h > 0) = (w >= 0) THEN Infinity ELSE -Infinity
        ELSE (scaledDelta * h) \div w

\* v || 0: 0 for a number that is not one
orZero(v) == IF v = NaN THEN 0 ELSE v

\* a rotate branch that keeps the mouse position of startResizing as the
\* anchor of every call
rotateBy_anchored(S, shape, m) ==
    LET b == S.selectionState.initialShapeBounds[1]
        center == [x |-> add(b.x, half(b.width)), y |-> add(b.y, half(b.height))]
        deltaAngle == sub(calculateRotationAngle(center, m),
                          calculateRotationAngle(center, S.selectionState.initialMousePos[1]))
    IN  [S EXCEPT
            !.shapes = [k \in 1..Len(S.shapes) |->
                IF S.shapes[k].id = S.selectedShapeId
                THEN [S.shapes[k] EXCEPT
                        !.rotation = jsRem(add(jsRem(add(orZero(S.shapes[k].rotation),
                                                         deltaAngle), 360), 360), 360)]
                ELSE S.shapes[k]],
            !.cache.needsUpdate = TRUE]

\* the rotate branch of resizeSelectedShape (lines 1265-1300): the angle
\* between the two mouse positions seen from the centre of the anchor
\* bounds is added to the rotation, and the mouse position becomes the
\* anchor of the next call
rotateBy(S, shape, m) ==
    LET b == S.selectionState.initialShapeBounds[1]
        center == [x |-> add(b.x, half(b.width)), y |-> add(b.y, half(b.height))]
        deltaAngle == sub(calculateRotationAngle(center, m),
                          calculateRotationAngle(center, S.selectionState.initialMousePos[1]))
    IN  [S EXCEPT
            !.shapes = [k \in 1..Len(S.shapes) |->
                IF S.shapes[k].id = S.selectedShapeId
                THEN [S.shapes[k] EXCEPT
                        !.rotation = jsRem(add(jsRem(add(orZero(S.shapes[k].rotation),
                                                         deltaAngle), 360), 360), 360)]
                ELSE S.shapes[k]],
            !.cache.needsUpdate = TRUE,
            !.selectionState.initialMousePos = <<m>>]

\* a line branch that moves the whole line with the top-left handle
lineBounds_whole(b, i, handle, m) ==
    IF handle = "top-left"
    THEN [x |-> add(b.x, m.x - i.x), y |-> add(b.y, m.y - i.y),
          width |-> b.width, height |-> b.height]
    ELSE IF handle = "bottom-right"
    THEN [x |-> b.x, y |-> b.y,
          width |-> add(b.width, m.x - i.x), height |-> add(b.height, m.y - i.y)]
    ELSE b

\* the line branch (lines 1302-1328): only the clicked endpoint moves and
\* nothing is clamped
lineBounds(b, i, handle, m) ==
    LET endX == add(b.x, b.width)
        endY == add(b.y, b.height)
    IN  IF handle = "top-left"
        THEN LET newX == add(b.x, m.x - i.x)
                 newY == add(b.y, m.y - i.y)
             IN  [x |-> newX, y |-> newY,
                  width |-> sub(endX, newX), height |-> sub(endY, newY)]
        ELSE IF handle = "bottom-right"
        THEN [x |-> b.x, y |-> b.y,
              width |-> add(b.width, m.x - i.x), height |-> add(b.height, m.y - i.y)]
        ELSE b

\* Math.max(Math.abs(deltaX), Math.abs(deltaY)) (line 1342)
scaledDeltaOf(i, m) ==
    IF Abs(m.x - i.x) >= Abs(m.y - i.y) THEN Abs(m.x - i.x) ELSE Abs(m.y - i.y)

\* the switch over the handle (lines 1331-1402), before the clamp
handleBounds(b, i, handle, m, maintainAspectRatio) ==
    LET deltaX == m.x - i.x
        deltaY == m.y - i.y
        scaledDelta == scaledDeltaOf(i, m)
        q == overAspect(scaledDelta, b)
    IN  CASE handle = "top-left" ->
                IF maintainAspectRatio
                THEN [x |-> sub(b.x, scaledDelta), y |-> sub(b.y, q),
                      width |-> add(b.width, scaledDelta), height |-> add(b.height, q)]
                ELSE [x |-> add(b.x, deltaX), y |-> add(b.y, deltaY),
                      width |-> sub(b.width, deltaX), height |-> sub(b.height, deltaY)]
          [] handle = "top-right" ->
                IF maintainAspectRatio
                THEN [x |-> b.x, y |-> sub(b.y, q),
                      width |-> add(b.width, scaledDelta), height |-> add(b.height, q)]
                ELSE [x |-> b.x, y |-> add(b.y, deltaY),
                      width |-> add(b.width, deltaX), height |-> sub(b.height, deltaY)]
          [] handle = "bottom-left" ->
                IF maintainAspectRatio
                THEN [x |-> sub(b.x, scaledDelta), y |-> b.y,
                      width |-> add(b.width, scaledDelta), height |-> add(b.height, q)]
                ELSE [x |-> add(b.x, deltaX), y |-> b.y,
                      width |-> sub(b.width, deltaX), height |-> add(b.height, deltaY)]
          [] handle = "bottom-right" ->
                IF maintainAspectRatio
                THEN [x |-> b.x, y |-> b.y,
                      width |-> add(b.width, scaledDelta), height |-> add(b.height, q)]
                ELSE [x |-> b.x, y |-> b.y,
                      width |-> add(b.width, deltaX), height |-> add(b.height, deltaY)]
          [] handle = "top" ->
                [x |-> b.x, y |-> add(b.y, deltaY),
                 width |-> b.width, height |-> sub(b.height, deltaY)]
          [] handle = "right" ->
                [x |-> b.x, y |-> b.y, width |-> add(b.width, deltaX), height |-> b.height]
          [] handle = "bottom" ->
                [x |-> b.x, y |-> b.y, width |-> b.width, height |-> add(b.height, deltaY)]
          [] handle = "left" ->
                [x |-> add(b.x, deltaX), y |-> b.y,
                 width |-> sub(b.width, deltaX), height |-> b.height]
          [] OTHER -> b

\* Math.max(10, v) (lines 1405-1406): not a number stays not a number
atLeast10(v) == IF v = NaN THEN NaN ELSE IF v < 10 THEN 10 ELSE v

\* lines 1404-1406: width and height are at least 10; x and y stay
clamped(b) ==
    [b EXCEPT !.width = atLeast10(b.width), !.height = atLeast10(b.height)]

\* the bounds read from the shape itself instead of the anchor
anchorBounds_current(S) ==
    LET s == S.shapes[findIndex(S.shapes, S.selectedShapeId)]
    IN  [x |-> s.x, y |-> s.y, width |-> s.width, height |-> s.height]

\* selectionState.initialShapeBounds (lines 1262-1263)
anchorBounds(S) == S.selectionState.initialShapeBounds[1]

\* whether resizeSelectedShape gets past its early returns (lines 1256-1263)
canResize(S) ==
    /\ S.selectionState.activeHandle # "none"
    /\ S.selectedShapeId # NoId
    /\ findIndex(S.shapes, S.selectedShapeId) # 0
    /\ S.selectionState.initialMousePos # <<>>
    /\ S.selectionState.initialShapeBounds # <<>>

\* resizeSelectedShape (lines 1254-1429): the shape named by the store's
\* selectedShapeId is rotated, or gets the bounds that the anchor and the
\* mouse position give; the shapes array is written directly
resizeSelectedShape(S, m, maintainAspectRatio) ==
    IF ~canResize(S) THEN S
    ELSE LET shape == S.shapes[findIndex(S.shapes, S.selectedShapeId)]
             handle == S.selectionState.activeHandle
             i == S.selectionState.initialMousePos[1]
             nb == IF shape.type = "line"
                   THEN lineBounds(anchorBounds(S), i, handle, m)
                   ELSE clamped(handleBounds(anchorBounds(S), i, handle, m,
                                             maintainAspectRatio))
         IN  IF handle = "rotate" THEN rotateBy(S, shape, m)
             ELSE [S EXCEPT
                     !.shapes = [k \in 1..Len(S.shapes) |->
                         IF S.shapes[k].id = S.selectedShapeId
                         THEN [S.shapes[k] EXCEPT !.x = nb.x, !.y = nb.y,
                                                  !.width = nb.width, !.height = nb.height]
                         ELSE S.shapes[k]],
                     !.cache.needsUpdate = TRUE]

\* childShapes.sort((a, b) => (a.zIndex || 0) - (b.zIndex || 0)): a stable
\* sort, an element going behind the elements that do not exceed it
RECURSIVE insertByZ(_, _)
insertByZ(sorted, s) ==
    IF sorted = <<>> THEN <<s>>
    ELSE IF Head(sorted).zIndex <= s.zIndex
         THEN <<Head(sorted)>> \o insertByZ(Tail(sorted), s)
         ELSE <<s>> \o sorted

\* a sort that leaves the order as it is
sortByZ_unsorted(ss) == ss

RECURSIVE sortByZ(_)
sortByZ(ss) ==
    IF ss = <<>> THEN <<>>
    ELSE insertByZ(sortByZ(SubSeq(ss, 1, Len(ss) - 1)), ss[Len(ss)])

\* the transform of a shape under its parent's (lines 558-563); a root has
\* no parent transform and every missing part counts as 0
absoluteTransformOf(shape, parentTransform) ==
    [x        |-> parentTransform.x + shape.x,
     y        |-> parentTransform.y + shape.y,
     rotation |-> parentTransform.rotation + shape.rotation,
     scale    |-> 1]

noTransform == [x |-> 0, y |-> 0, rotation |-> 0, scale |-> 1]

\* { ...shape, absoluteTransform }
transformed(shape, t) ==
    [k \in (DOMAIN shape) \cup {"absoluteTransform"} |->
        IF k = "absoluteTransform" THEN t ELSE shape[k]]

\* processShape (lines 553-589), the recursion unrolled over a list of
\* <<shape, parent transform, call depth>>: the shape is pushed, then its
\* children in ascending zIndex, each with its whole subtree.
\* ok = FALSE: a cycle under a root exhausts the call stack.
RECURSIVE processShape(_, _, _)
processShape(shps, work, result) ==
    IF work = <<>> THEN [ok |-> TRUE, list |-> result]
    ELSE LET shape == Head(work)[1]
             depth == Head(work)[3]
             t     == absoluteTransformOf(shape, Head(work)[2])
             childShapes == sortByZ(resolve(shps, shape.childIds))
             below == [k \in 1..Len(childShapes) |-> <<childShapes[k], t, depth + 1>>]
         IN  IF depth > Len(shps) THEN [ok |-> FALSE, list |-> result]
             ELSE processShape(shps, below \o Tail(work),
                               Append(result, transformed(shape, t)))

\* the recomputation of getFlattenedShapes (lines 548-597)
flatten(shps) ==
    LET rootShapes == sortByZ(SelectSeq(shps, LAMBDA s : s.parentId = NoId))
    IN  processShape(shps,
            [k \in 1..Len(rootShapes) |-> <<rootShapes[k], noTransform, 1>>],
            <<>>)

\* whether getFlattenedShapes answers from the cache (line 544)
servesCache(c) == ~c.needsUpdate /\ Len(c.flattenedShapes) > 0

\* one store write: every field of the store takes its new value at once
Commit(S) ==
    /\ \A k \in 1..Len(S.shapes) : Len(S.shapes[k].childIds) <= MaxChildIds
    /\ shapes' = S.shapes
    /\ selectedShapeId' = S.selectedShapeId
    /\ selectedShapeIds' = S.selectedShapeIds
    /\ selectionState' = S.selectionState
    /\ cache' = S.cache
    /\ nextId' = S.nextId

Init ==
    /\ shapes = <<>>
    /\ selectedShapeId = NoId
    /\ selectedShapeIds = <<>>
    /\ selectionState = [selectedShapeId |-> NoId, activeHandle |-> "none",
                         initialMousePos |-> <<>>, initialShapeBounds |-> <<>>]
    /\ cache = [flattenedShapes |-> <<>>, needsUpdate |-> TRUE]
    /\ timers = <<>>
    /\ nextId = 1
    /\ calls = 0
    /\ last = [op |-> "init", id |-> NoId, out |-> "acted", pre |-> <<>>, ret |-> <<>>]

(* ------------------------------------------------------------------ *)
(* The store's methods as actions                                      *)
(* ------------------------------------------------------------------ *)

\* ids a caller can name: every id handed out so far, in the store or not
Issued == 1..(nextId - 1)

\* ids of the shapes in the store
idsOf(shps) == {shps[k].id : k \in 1..Len(shps)}

\* the shape in the store with the given id
shapeAt(id) == shapes[findIndex(shapes, id)]

CanCall == calls < MaxCalls

\* what a call did: it wrote or computed its result ("acted"), returned
\* early ("skipped"), threw ("threw"), or answered from the cache ("cached")
outcome(found, ok) == IF ~found THEN "skipped" ELSE IF ok THEN "acted" ELSE "threw"

\* the record of the call that ran: its name, the id it was about, its
\* outcome, the store it started from (kept for the calls whose result is
\* stated against it) and the list it returned
Called(op, id, out, pre, ret) ==
    /\ calls' = calls + 1
    /\ last' = [op |-> op, id |-> id, out |-> out, pre |-> pre, ret |-> ret]

\* the id addShape returns (line 701): the one generateId gave it (line 644)
addShapeReturns(S, p) == S.nextId

\* the id the partial shape carries, if any
suppliedId(p) == IF Has(p, "id") THEN <<p.id>> ELSE <<>>

AddShape(p) ==
    /\ CanCall
    /\ nextId <= MaxIds
    /\ Commit(addShape(Store, p))
    /\ UNCHANGED timers
    /\ Called("addShape", addShapeReturns(Store, p), "acted", <<>>, suppliedId(p))

UpdateShape(id, patch) ==
    LET r == updateShape(Store, id, patch)
    IN  /\ CanCall
        /\ Commit(r.store)
        /\ UNCHANGED timers
        /\ Called("updateShape", NoId, outcome(id \in idsOf(shapes), r.ok), <<>>, <<>>)

MoveShapeToParent(id, parentId) ==
    LET r == moveShapeToParent(Store, id, parentId)
    IN  /\ CanCall
        /\ Commit(r.store)
        /\ UNCHANGED timers
        /\ Called("moveShapeToParent", NoId, outcome(id \in idsOf(shapes), r.ok),
                  <<>>, <<>>)

DeleteShape(id) ==
    LET r == deleteShape(Store, id)
    IN  /\ CanCall
        /\ Commit(r.store)
        /\ UNCHANGED timers
        /\ Called("deleteShape", id, outcome(id \in idsOf(shapes), r.ok),
                  <<Store>>, <<>>)

CreateGroup ==
    LET S == createGroup(Store)
    IN  /\ CanCall
        /\ nextId <= MaxIds
        /\ Commit(S)
        /\ UNCHANGED timers
        /\ Called("createGroup", nextId, outcome(S.nextId # nextId, TRUE),
                  <<Store>>, <<>>)

\* an ungroup of the group the call before created keeps the store that
\* createGroup started from
Ungroup(groupId) ==
    /\ CanCall
    /\ Commit(ungroup(Store, groupId))
    /\ UNCHANGED timers
    /\ Called("ungroup", groupId, outcome(canUngroup(shapes, groupId), TRUE),
              IF last.op = "createGroup" /\ last.out = "acted" /\ last.id = groupId
              THEN last.pre ELSE <<>>,
              <<>>)

DuplicateSelectedShapes ==
    LET n == Cardinality({k \in 1..Len(shapes) : shapes[k].id \in Range(selectedShapeIds)})
    IN  /\ CanCall
        /\ nextId + 2 * n - 1 <= MaxIds
        /\ Commit(duplicateSelectedShapes(Store))
        /\ UNCHANGED timers
        /\ Called("duplicateSelectedShapes", NoId,
                  outcome(Len(selectedShapeIds) > 0, TRUE), <<>>, <<>>)

CreateFrame(params) ==
    /\ CanCall
    /\ nextId + 1 <= MaxIds
    /\ Commit(createFrame(Store, params))
    /\ UNCHANGED timers
    /\ Called("createFrame", NoId, "acted", <<>>, <<>>)

ReorderShapes(newOrder) ==
    /\ CanCall
    /\ Commit(reorderShapes(Store, newOrder))
    /\ UNCHANGED timers
    /\ Called("reorderShapes", NoId, "acted", <<>>, <<>>)

SetSelectedShapeId(id) ==
    /\ CanCall
    /\ Commit(setSelectedShapeId(Store, id))
    /\ UNCHANGED timers
    /\ Called("setSelectedShapeId", NoId, "acted", <<>>, <<>>)

\* setSelectedShapeIds (lines 1011-1015)
SetSelectedShapeIds(ids) ==
    /\ CanCall
    /\ selectedShapeIds' = ids
    /\ UNCHANGED <<shapes, selectedShapeId, selectionState, cache, timers, nextId>>
    /\ Called("setSelectedShapeIds", NoId, "acted", <<>>, <<>>)

ToggleShapeSelection(id) ==
    /\ CanCall
    /\ Commit(toggleShapeSelection(Store, id))
    /\ UNCHANGED timers
    /\ Called("toggleShapeSelection", NoId, "acted", <<>>, <<>>)

StartResizing(id, handle, mousePos, shapeBounds) ==
    /\ CanCall
    /\ Commit(startResizing(Store, id, handle, mousePos, shapeBounds))
    /\ UNCHANGED timers
    /\ Called("startResizing", NoId, "acted", <<>>, <<>>)

EndResizing ==
    /\ CanCall
    /\ Commit(endResizing(Store))
    /\ UNCHANGED timers
    /\ Called("endResizing", NoId, "acted", <<>>, <<>>)

\* a move of the mouse during a gesture; the record keeps the store the
\* run of moves started from, the arguments and the number of the move
ResizeSelectedShape(m, maintainAspectRatio) ==
    LET again == last.op = "resizeSelectedShape"
    IN  /\ CanCall
        /\ Commit(resizeSelectedShape(Store, m, maintainAspectRatio))
        /\ UNCHANGED timers
        /\ Called("resizeSelectedShape", selectedShapeId,
                  outcome(canResize(Store), TRUE),
                  IF again THEN last.pre ELSE <<Store>>,
                  <<[mouse |-> m, lock |-> maintainAspectRatio,
                     move |-> IF again THEN last.ret[1].move + 1 ELSE 1]>>)

\* getFlattenedShapes (lines 540-611): the cached list, or a recomputation
\* whose result is returned at once and written to the cache by a timer
GetFlattenedShapes ==
    LET r == flatten(shapes)
    IN  /\ CanCall
        /\ UNCHANGED <<shapes, selectedShapeId, selectedShapeIds, selectionState,
                       cache, nextId>>
        /\ IF servesCache(cache)
           THEN /\ UNCHANGED timers
                /\ Called("getFlattenedShapes", NoId, "cached", <<>>, cache.flattenedShapes)
           ELSE IF r.ok
           THEN /\ Len(timers) < MaxTimers
                /\ timers' = Append(timers, r.list)
                /\ Called("getFlattenedShapes", NoId, "acted", <<>>, r.list)
           ELSE /\ UNCHANGED timers
                /\ Called("getFlattenedShapes", NoId, "threw", <<>>, <<>>)

\* the setTimeout callback (lines 600-608); timers of delay 0 run in the
\* order they were set
TimerFires ==
    /\ CanCall
    /\ timers # <<>>
    /\ cache' = [flattenedShapes |-> Head(timers), needsUpdate |-> FALSE]
    /\ timers' = Tail(timers)
    /\ UNCHANGED <<shapes, selectedShapeId, selectedShapeIds, selectionState, nextId>>
    /\ Called("timer", NoId, "acted", <<>>, <<>>)

(* ------------------------------------------------------------------ *)
(* Inputs                                                              *)
(* ------------------------------------------------------------------ *)

\* a leaf or a frame of one size at the origin, under any parent a caller
\* can name
PlainShapes ==
    {[type |-> ty, x |-> 0, y |-> 0, width |-> 10, height |-> 10,
      isContainer |-> (ty = "frame"), parentId |-> q] :
        ty \in {"rectangle", "frame"}, q \in {NoId} \cup Issued}

\* selections of at most two ids, in ascending order
Selections ==
    {<<>>} \cup {<<a>> : a \in Issued}
           \cup {<<q[1], q[2]>> : q \in {r \in Issued \X Issued : r[1] < r[2]}}

\* patches of the parent
ParentPatches == {[parentId |-> q] : q \in {NoId} \cup Issued}

(* ------------------------------------------------------------------ *)
(* The hierarchy: every method that adds, removes or re-parents shapes *)
(* ------------------------------------------------------------------ *)

Next ==
    \/ \E p \in PlainShapes : AddShape(p)
    \/ \E id \in Issued, patch \in ParentPatches : UpdateShape(id, patch)
    \/ \E id \in Issued, q \in {NoId} \cup Issued : MoveShapeToParent(id, q)
    \/ \E id \in Issued : DeleteShape(id)
    \/ \E ids \in Selections : SetSelectedShapeIds(ids)
    \/ CreateGroup
    \/ \E id \in Issued : Ungroup(id)
    \/ DuplicateSelectedShapes

Spec == Init /\ [][Next]_vars

(* ------------------------------------------------------------------ *)
(* C1, C2: the parent graph                                            *)
(* ------------------------------------------------------------------ *)

\* C1: for every pair of shapes c and p in the store, c.parentId = p.id
\* if and only if c.id is an element of p.childIds
C1_TreeConsistent ==
    \A i, j \in 1..Len(shapes) :
        (shapes[i].parentId = shapes[j].id) <=> (shapes[i].id \in Range(shapes[j].childIds))

\* the shape reached from id by following n parentId links, NoId when the
\* chain ends before
RECURSIVE ancestorAt(_, _)
ancestorAt(id, n) ==
    IF n = 0 THEN id
    ELSE LET a == ancestorAt(id, n - 1)
             i == IF a = NoId THEN 0 ELSE findIndex(shapes, a)
         IN  IF i = 0 THEN NoId ELSE shapes[i].parentId

\* C2: following parentId links from any shape never returns to that shape
C2_Acyclic ==
    \A i \in 1..Len(shapes) :
        \A n \in 1..Len(shapes) : ancestorAt(shapes[i].id, n) # shapes[i].id

(* ------------------------------------------------------------------ *)
(* C5: cascade delete                                                  *)
(* ------------------------------------------------------------------ *)

\* the ids named by the childIds of the shapes of shps whose id is in ids
childrenOf(shps, ids) ==
    UNION {Range(shps[k].childIds) : k \in {j \in 1..Len(shps) : shps[j].id \in ids}}

\* ids together with every id reachable from them through childIds in at
\* most n steps
RECURSIVE reachable(_, _, _)
reachable(shps, ids, n) ==
    IF n = 0 THEN ids
    ELSE reachable(shps, ids \cup childrenOf(shps, ids), n - 1)

\* C5: a deleteShape(id) of a shape in the store removes the shape and
\* every shape reachable from it through childIds, keeps every other shape,
\* and leaves id in the childIds of no shape that id named as its parent
C5_CascadeDelete ==
    (last.op = "deleteShape" /\ last.out # "skipped") =>
        LET pre  == last.pre[1].shapes
            gone == reachable(pre, {last.id}, Len(pre))
            was  == pre[findIndex(pre, last.id)]
        IN  /\ idsOf(shapes) = idsOf(pre) \ gone
            /\ \A k \in 1..Len(shapes) :
                   shapes[k].id = was.parentId => last.id \notin Range(shapes[k].childIds)

(* ------------------------------------------------------------------ *)
(* C6: the selection after a delete                                    *)
(* ------------------------------------------------------------------ *)

\* a caller selects shapes that are on the canvas
OnCanvas == idsOf(shapes)

Handles == {"right", "rotate"}

NextSel ==
    \/ \E p \in PlainShapes : AddShape(p)
    \/ \E id \in OnCanvas \cup {NoId} : SetSelectedShapeId(id)
    \/ \E id \in OnCanvas : ToggleShapeSelection(id)
    \/ \E id \in OnCanvas, h \in Handles :
           StartResizing(id, h, <<[x |-> 0, y |-> 0]>>,
                         <<[x |-> 0, y |-> 0, width |-> 10, height |-> 10]>>)
    \/ EndResizing
    \/ \E id \in Issued : DeleteShape(id)

SpecSel == Init /\ [][NextSel]_vars

\* C6: after a deleteShape that removed shapes, selectedShapeId, every
\* element of selectedShapeIds and selectionState.selectedShapeId are each
\* empty or the id of a shape in the store
C6_SelectionCleared ==
    (last.op = "deleteShape" /\ last.out = "acted") =>
        /\ selectedShapeId \in {NoId} \cup idsOf(shapes)
        /\ Range(selectedShapeIds) \subseteq idsOf(shapes)
        /\ selectionState.selectedShapeId \in {NoId} \cup idsOf(shapes)

(* ------------------------------------------------------------------ *)
(* C3, C4: the cache of the flattened list                             *)
(* ------------------------------------------------------------------ *)

\* rectangles under any parent a caller can name
Rectangles == {p \in PlainShapes : p.type = "rectangle"}

\* a drag to the right
MovePatches == {[x |-> 10]}

\* orders of one or two shapes on the canvas
Orders ==
    {<<a>> : a \in OnCanvas}
        \cup {<<q[1], q[2]>> : q \in {r \in OnCanvas \X OnCanvas : r[1] # r[2]}}

FrameParams == {[x |-> 0, y |-> 0]}

NextCache ==
    \/ \E p \in Rectangles : AddShape(p)
    \/ \E id \in Issued, patch \in MovePatches : UpdateShape(id, patch)
    \/ \E id \in Issued : DeleteShape(id)
    \/ \E o \in Orders : ReorderShapes(o)
    \/ \E params \in FrameParams : CreateFrame(params)
    \/ \E id \in OnCanvas : ToggleShapeSelection(id)
    \/ CreateGroup
    \/ \E id \in OnCanvas : Ungroup(id)
    \/ DuplicateSelectedShapes
    \/ GetFlattenedShapes
    \/ TimerFires

SpecCache == Init /\ [][NextCache]_vars

\* C3: every list getFlattenedShapes returns, from the cache or not, is the
\* list a full recomputation from the current shapes produces
C3_NeverStale ==
    (last.op = "getFlattenedShapes" /\ last.out # "threw" /\ flatten(shapes).ok) =>
        last.ret = flatten(shapes).list

\* C4: every step that changes the shapes array commits
\* cache.needsUpdate = TRUE
C4_MutationsInvalidate == [][shapes' # shapes => cache'.needsUpdate]_vars

(* ------------------------------------------------------------------ *)
(* C7, C8: the flattened list                                          *)
(* ------------------------------------------------------------------ *)

\* a rectangle of one size at <<x, y>>, turned by rotation, with a zIndex
\* of its own or (0) the next free one, under parent q
rectangleAt(g, q) ==
    [type |-> "rectangle", x |-> g[1], y |-> g[2], width |-> 10, height |-> 10,
     rotation |-> g[3], zIndex |-> g[4], parentId |-> q]

\* upright at the origin, upright to the right of it with a high zIndex,
\* turned by 90 degrees at the origin
FlattenShapes ==
    {rectangleAt(g, q) :
        g \in {<<0, 0, 0, 0>>, <<10, 0, 0, 5>>, <<0, 0, 90, 0>>},
        q \in {NoId} \cup Issued}

NextFlatten ==
    \/ \E p \in FlattenShapes : AddShape(p)
    \/ \E id \in OnCanvas, q \in {NoId} \cup OnCanvas : MoveShapeToParent(id, q)
    \/ GetFlattenedShapes
    \/ TimerFires

SpecFlatten == Init /\ [][NextFlatten]_vars

\* the ids of a list of shapes
idList(ss) == [k \in 1..Len(ss) |-> ss[k].id]

\* ss[i] goes before ss[j]: the lower zIndex first, equal ones as they stand
before(ss, i, j) ==
    \/ ss[i].zIndex < ss[j].zIndex
    \/ ss[i].zIndex = ss[j].zIndex /\ i < j

\* ss in ascending zIndex: the shape at place r has r - 1 shapes before it
ascending(ss) ==
    [r \in 1..Len(ss) |->
        ss[CHOOSE i \in 1..Len(ss) :
               Cardinality({j \in 1..Len(ss) : before(ss, j, i)}) = r - 1]]

RECURSIVE concat(_)
concat(seqs) == IF seqs = <<>> THEN <<>> ELSE Head(seqs) \o concat(Tail(seqs))

\* a shape followed by the pre-orders of its children in ascending zIndex
RECURSIVE preOrder(_, _, _)
preOrder(shps, s, fuel) ==
    IF fuel = 0 THEN <<>>
    ELSE LET kids == ascending(resolve(shps, s.childIds))
         IN  <<s.id>> \o concat([k \in 1..Len(kids) |-> preOrder(shps, kids[k], fuel - 1)])

\* the roots in ascending zIndex, each followed by its whole subtree
hierarchicalOrder(shps) ==
    LET roots == ascending(SelectSeq(shps, LAMBDA s : s.parentId = NoId))
    IN  concat([k \in 1..Len(roots) |-> preOrder(shps, roots[k], Len(shps) + 1)])

\* the places of id in a list of ids
placesOf(ids, id) == {k \in 1..Len(ids) : ids[k] = id}

\* C7: the list a recomputing getFlattenedShapes returns is the roots in
\* ascending zIndex, each immediately followed by its whole subtree with the
\* children in ascending zIndex, depth first; and of two roots, every shape
\* under the one with the lower zIndex that is listed once comes before every
\* shape under the other that is listed once, whatever their own zIndex
C7_HierarchicalPreOrder ==
    (last.op = "getFlattenedShapes" /\ last.out = "acted") =>
        LET ids == idList(last.ret)
            roots == {k \in 1..Len(shapes) : shapes[k].parentId = NoId}
            under(k) == reachable(shapes, {shapes[k].id}, Len(shapes)) \cap idsOf(shapes)
        IN  /\ ids = hierarchicalOrder(shapes)
            /\ \A a, b \in roots :
                   shapes[a].zIndex < shapes[b].zIndex =>
                       \A d \in under(a), e \in under(b) :
                           (Cardinality(placesOf(ids, d)) = 1
                                /\ Cardinality(placesOf(ids, e)) = 1) =>
                               \A i \in placesOf(ids, d), j \in placesOf(ids, e) : i < j

\* C7 witness: R1 (zIndex 1) with child C1 (zIndex 5) and R2 (zIndex 2)
\* are returned as R1, C1, R2
C7_Witness ==
    /\ last.op = "getFlattenedShapes" /\ last.out = "acted"
    /\ Len(shapes) = 3
    /\ shapes[1].zIndex = 1 /\ shapes[1].parentId = NoId
    /\ shapes[2].zIndex = 2 /\ shapes[2].parentId = NoId
    /\ shapes[3].zIndex = 5 /\ shapes[3].parentId = shapes[1].id
    /\ idList(last.ret) = <<shapes[1].id, shapes[3].id, shapes[2].id>>

\* cosine and sine of a multiple of 90 degrees
cosd(r) == CASE r % 360 = 0 -> 1 [] r % 360 = 180 -> -1 [] OTHER -> 0
sind(r) == CASE r % 360 = 90 -> 1 [] r % 360 = 270 -> -1 [] OTHER -> 0

\* C8: in the list a recomputing getFlattenedShapes returns, the
\* absoluteTransform of a child is its parent's absolute position plus the
\* child's local offset rotated by the parent's absolute rotation, and the
\* sum of the two rotations
C8_RotatedOffset ==
    (last.op = "getFlattenedShapes" /\ last.out = "acted") =>
        \A c, p \in 1..Len(last.ret) :
            last.ret[c].parentId = last.ret[p].id =>
                LET child == last.ret[c]
                    pt == last.ret[p].absoluteTransform
                IN  /\ child.absoluteTransform.x =
                           pt.x + child.x * cosd(pt.rotation) - child.y * sind(pt.rotation)
                    /\ child.absoluteTransform.y =
                           pt.y + child.x * sind(pt.rotation) + child.y * cosd(pt.rotation)
                    /\ child.absoluteTransform.rotation = pt.rotation + child.rotation

(* ------------------------------------------------------------------ *)
(* C9, C10: grouping                                                   *)
(* ------------------------------------------------------------------ *)

\* upright rectangles at three places
GroupShapes ==
    {rectangleAt(g, q) :
        g \in {<<0, 0, 0, 0>>, <<20, 20, 0, 0>>, <<10, 0, 0, 0>>},
        q \in {NoId} \cup Issued}

NextGroup ==
    \/ \E p \in GroupShapes : AddShape(p)
    \/ \E id \in OnCanvas : ToggleShapeSelection(id)
    \/ CreateGroup
    \/ \E id \in OnCanvas : Ungroup(id)

SpecGroup == Init /\ [][NextGroup]_vars

\* the shape of shps with the given id
shapeOf(shps, id) == shps[findIndex(shps, id)]

\* the selected shapes of a store
selectedOf(S) == {k \in 1..Len(S.shapes) : S.shapes[k].id \in Range(S.selectedShapeIds)}

\* box is the tight box around the boxes of ss: it holds every box and
\* every side of it is the side of some box
tightBox(box, ss) ==
    /\ \A s \in ss : /\ box.x <= s.x /\ s.x + s.width <= box.x + box.width
                     /\ box.y <= s.y /\ s.y + s.height <= box.y + box.height
    /\ \E s \in ss : s.x = box.x
    /\ \E s \in ss : s.y = box.y
    /\ \E s \in ss : s.x + s.width = box.x + box.width
    /\ \E s \in ss : s.y + s.height = box.y + box.height

\* C9: a createGroup with two or more selected shapes, all of them roots,
\* adds a group whose x, y, width, height are the tight box around the
\* selected shapes' boxes, and every selected shape keeps its width and
\* height and has its former x and y less the group's x and y
C9_GroupBox ==
    (last.op = "createGroup"
        /\ Cardinality(selectedOf(last.pre[1])) >= 2
        /\ \A k \in selectedOf(last.pre[1]) : last.pre[1].shapes[k].parentId = NoId) =>
        LET pre == last.pre[1].shapes
            sel == selectedOf(last.pre[1])
        IN  /\ last.id \in idsOf(shapes) \ idsOf(pre)
            /\ shapeOf(shapes, last.id).type = "group"
            /\ tightBox(shapeOf(shapes, last.id), {pre[k] : k \in sel})
            /\ \A k \in sel :
                   LET was == pre[k]
                       now == shapeOf(shapes, was.id)
                       g   == shapeOf(shapes, last.id)
                   IN  /\ was.id \in idsOf(shapes)
                       /\ now.x = was.x - g.x /\ now.y = was.y - g.y
                       /\ now.width = was.width /\ now.height = was.height

\* C9 witness: boxes (0,0,10,10) and (20,20,10,10) grouped into a group at
\* (0,0,30,30) with the two at local (0,0) and (20,20)
C9_Witness ==
    /\ last.op = "createGroup" /\ last.out = "acted"
    /\ Len(shapes) = 3
    /\ shapes[3].id = last.id
    /\ <<shapes[3].x, shapes[3].y, shapes[3].width, shapes[3].height>> = <<0, 0, 30, 30>>
    /\ <<shapes[1].x, shapes[1].y, shapes[1].width, shapes[1].height>> = <<0, 0, 10, 10>>
    /\ <<shapes[2].x, shapes[2].y, shapes[2].width, shapes[2].height>> = <<20, 20, 10, 10>>
    /\ shapes[1].parentId = last.id /\ shapes[2].parentId = last.id
    /\ last.pre[1].shapes[2].x = 20

\* C10: an ungroup of the group that the call before created from two or
\* more root shapes leaves every grouped shape with the x, y, width and
\* height it had before createGroup and with no parentId, and the group is
\* not in the store
C10_UngroupRoundTrip ==
    (last.op = "ungroup" /\ last.pre # <<>>) =>
        LET pre == last.pre[1].shapes
            sel == selectedOf(last.pre[1])
        IN  /\ last.id \notin idsOf(shapes)
            /\ \A k \in sel :
                   LET was == pre[k]
                       now == shapeOf(shapes, was.id)
                   IN  /\ was.id \in idsOf(shapes)
                       /\ now.x = was.x /\ now.y = was.y
                       /\ now.width = was.width /\ now.height = was.height
                       /\ now.parentId = NoId

\* C10 witness: two roots, one of them away from the origin of their box,
\* grouped and ungrouped again
C10_Witness ==
    /\ last.op = "ungroup" /\ last.out = "acted" /\ last.pre # <<>>
    /\ Cardinality(selectedOf(last.pre[1])) >= 2
    /\ \E k \in selectedOf(last.pre[1]) : last.pre[1].shapes[k].x = 20
    /\ \E k \in selectedOf(last.pre[1]) : last.pre[1].shapes[k].x = 10

(* ------------------------------------------------------------------ *)
(* C11, C12: the resize gesture                                        *)
(* ------------------------------------------------------------------ *)

AllHandles ==
    {"top-left", "top-right", "bottom-left", "bottom-right",
     "top", "right", "bottom", "left", "rotate"}

\* a square rectangle and a line across a square, at the origin
ResizeShapes ==
    {[type |-> ty, x |-> 0, y |-> 0, width |-> 20, height |-> 20, parentId |-> NoId] :
        ty \in {"rectangle", "line"}}

\* the bounds SelectionControls hands to startResizing: the shape's own
boundsOf(s) == [x |-> s.x, y |-> s.y, width |-> s.width, height |-> s.height]

\* a finite number in place of one that is not: the mouse is always at a
\* finite place
finiteOr0(v) == IF isFinite(v) THEN v ELSE 0

\* the centre of the bounds, where that is a finite place
centerOf(b) ==
    [x |-> finiteOr0(add(b.x, half(b.width))), y |-> finiteOr0(add(b.y, half(b.height)))]

\* where the mouse goes down: above the middle of the top edge
grabPoint(b) == [x |-> centerOf(b).x, y |-> finiteOr0(b.y) - 10]

\* bounds whose centre has whole coordinates, or none
wholeCenter(b) ==
    /\ isFinite(b.width) => b.width % 2 = 0
    /\ isFinite(b.height) => b.height % 2 = 0

\* whether scaledDelta / aspectRatio is a whole number, or not finite
wholeAspect(m) ==
    IF selectionState.initialMousePos = <<>> \/ selectionState.initialShapeBounds = <<>>
    THEN TRUE
    ELSE LET b == selectionState.initialShapeBounds[1]
             sd == scaledDeltaOf(selectionState.initialMousePos[1], m)
         IN  IF ~isFinite(b.width) \/ ~isFinite(b.height) \/ b.width = 0
             THEN TRUE
             ELSE (sd * Abs(b.height)) % Abs(b.width) = 0

\* the eight directions whose angle is a multiple of 45, and no move
Compass == {<<dx, dy>> : dx \in {-1, 0, 1}, dy \in {-1, 0, 1}}

\* where the mouse moves to: during a rotation, around the centre of the
\* anchor bounds; otherwise 20 away from the point it went down at, or
\* back on it
Mice ==
    IF selectionState.initialMousePos = <<>> \/ selectionState.initialShapeBounds = <<>>
    THEN {[x |-> 0, y |-> 0]}
    ELSE LET b == selectionState.initialShapeBounds[1]
             i == selectionState.initialMousePos[1]
         IN  IF selectionState.activeHandle = "rotate"
             THEN {[x |-> centerOf(b).x + 10 * d[1],
                    y |-> centerOf(b).y + 10 * d[2]] : d \in Compass \ {<<0, 0>>}}
             ELSE {[x |-> i.x + 20 * d[1], y |-> i.y + 20 * d[2]] : d \in Compass}

\* the gesture as SelectionControls drives it: the handle of the selected
\* shape is grabbed with the shape's own bounds
NextResize ==
    \/ \E p \in ResizeShapes : AddShape(p)
    \/ \E id \in OnCanvas : SetSelectedShapeId(id)
    \/ \E h \in AllHandles :
           /\ selectedShapeId \in OnCanvas
           /\ h = "rotate" => wholeCenter(boundsOf(shapeAt(selectedShapeId)))
           /\ StartResizing(selectedShapeId, h,
                            grabPoint(boundsOf(shapeAt(selectedShapeId))),
                            boundsOf(shapeAt(selectedShapeId)))
    \/ \E m \in Mice, lock \in BOOLEAN :
           /\ lock => wholeAspect(m)
           /\ ResizeSelectedShape(m, lock)
    \/ EndResizing

SpecResize == Init /\ [][NextResize]_vars

\* C11: after a resizeSelectedShape call that wrote a shape's bounds with
\* a handle other than rotate, that shape's width and height are both at
\* least 10
C11_MinimumSize ==
    (last.op = "resizeSelectedShape" /\ last.out = "acted"
        /\ selectionState.activeHandle # "rotate") =>
        /\ shapeAt(last.id).width # NaN /\ shapeAt(last.id).width >= 10
        /\ shapeAt(last.id).height # NaN /\ shapeAt(last.id).height >= 10

\* C12: after any number of moves in a row with a handle other than
\* rotate, the shape has the bounds that the last mouse position and
\* aspect lock alone give from the store the moves started from; so a move
\* repeated with the same arguments changes nothing
C12_AnchorOnly ==
    (last.op = "resizeSelectedShape" /\ last.out = "acted"
        /\ selectionState.activeHandle # "rotate") =>
        LET once == resizeSelectedShape(last.pre[1], last.ret[1].mouse, last.ret[1].lock)
        IN  boundsOf(shapeAt(last.id))
                = boundsOf(once.shapes[findIndex(once.shapes, last.id)])

\* C12 witness: a second move in a row, after a first move that changed
\* the shape's bounds, has changed them again
C12_Witness ==
    /\ last.op = "resizeSelectedShape" /\ last.out = "acted"
    /\ selectionState.activeHandle \notin {"rotate", "none"}
    /\ last.ret[1].move = 2
    /\ boundsOf(shapeAt(last.id)) # selectionState.initialShapeBounds[1]
    /\ boundsOf(shapeAt(last.id)).width = 40
    /\ selectionState.initialShapeBounds[1].width = 20

(* ------------------------------------------------------------------ *)
(* C13, C14: auto-resize groups                                        *)
(* ------------------------------------------------------------------ *)

\* patches of the geometry: a move and a resize
GeometryPatches == {[x |-> 10], [width |-> 20]}

\* rectangles, and an empty group as addShape makes one of type group
AutoShapes ==
    GroupShapes \cup {[type |-> "group", x |-> 0, y |-> 0, width |-> 0, height |-> 0,
                       isContainer |-> TRUE, parentId |-> NoId]}

NextAuto ==
    \/ \E p \in AutoShapes : AddShape(p)
    \/ \E ids \in Selections : SetSelectedShapeIds(ids)
    \/ CreateGroup
    \/ \E id \in Issued, patch \in GeometryPatches \cup ParentPatches : UpdateShape(id, patch)
    \/ \E id \in Issued : DeleteShape(id)

SpecAuto == Init /\ [][NextAuto]_vars

\* the shapes of the store that the childIds of g name
currentChildren(g) ==
    {shapes[k] : k \in {j \in 1..Len(shapes) : shapes[j].id \in Range(g.childIds)}}

\* C13: in every state, every group with autoResize and at least one child
\* in the store has the width and height of the tight box around its
\* children's local boxes
C13_AutoResizeTight ==
    \A k \in 1..Len(shapes) :
        (isAutoGroup(shapes[k]) /\ currentChildren(shapes[k]) # {}) =>
            LET ss == currentChildren(shapes[k])
            IN  tightBox([x |-> MinOf({s.x : s \in ss}), y |-> MinOf({s.y : s \in ss}),
                          width |-> shapes[k].width, height |-> shapes[k].height], ss)

\* C14: a deleteShape or updateShape call that takes the last child out of
\* a group with autoResize does not leave that group in the store
C14_NoEmptyAutoGroup ==
    [][(last'.op \in {"deleteShape", "updateShape"} /\ last'.out = "acted") =>
          \A k \in 1..Len(shapes') :
              LET g == shapes'[k]
                  j == findIndex(shapes, g.id)
              IN  ~(/\ isAutoGroup(g) /\ g.childIds = <<>>
                    /\ j # 0 /\ shapes[j].childIds # <<>>)]_vars

(* ------------------------------------------------------------------ *)
(* C15: a container's geometry and its descendants                     *)
(* ------------------------------------------------------------------ *)

\* rectangles and frames, at the origin or to the right of it
ContainerShapes ==
    {[type |-> ty, x |-> x, y |-> 0, width |-> 10, height |-> 10,
      isContainer |-> (ty = "frame"), parentId |-> q] :
        ty \in {"rectangle", "frame"}, x \in {0, 10}, q \in {NoId} \cup Issued}

\* a patch of each of x, y, width, height and rotation
ContainerPatches ==
    {[x |-> 10], [y |-> 10], [width |-> 20], [height |-> 20], [rotation |-> 90]}

NextContainer ==
    \/ \E p \in ContainerShapes : AddShape(p)
    \/ \E id \in Issued, patch \in ContainerPatches : UpdateShape(id, patch)

SpecContainer == Init /\ [][NextContainer]_vars

\* C15: a step that is an updateShape(id, patch) on a shape with children,
\* the patch carrying x, y, width, height or rotation, leaves every shape
\* reachable from id through childIds with its x, y and rotation
C15_DescendantsKeepLocal ==
    [][\A id \in Issued, patch \in ContainerPatches :
          LET i == findIndex(shapes, id)
              r == updateShape(Store, id, patch)
          IN  (/\ last'.op = "updateShape" /\ last'.out = "acted"
               /\ i # 0 /\ shapes[i].childIds # <<>>
               /\ r.ok /\ shapes' = r.store.shapes) =>
                  \A d \in reachable(shapes, {id}, Len(shapes)) \ {id} :
                      LET k == findIndex(shapes, d)
                      IN  k # 0 =>
                            /\ shapes'[k].x = shapes[k].x
                            /\ shapes'[k].y = shapes[k].y
                            /\ shapes'[k].rotation = shapes[k].rotation]_vars

(* ------------------------------------------------------------------ *)
(* C16: re-parenting                                                   *)
(* ------------------------------------------------------------------ *)

\* how often id occurs in the list
occurrences(list, id) == Cardinality({j \in 1..Len(list) : list[j] = id})

\* what C16 asks of the shapes after id, whose parent was old, was given
\* the parent p: id is in the childIds of no shape with the id old; it is
\* once in the childIds of the shape p; and with no p the shape has no
\* parentId and is in no childIds
membershipMoved(after, id, old, p) ==
    /\ \A k \in 1..Len(after) :
          (old # NoId /\ after[k].id = old) => occurrences(after[k].childIds, id) = 0
    /\ \A k \in 1..Len(after) :
          (p # NoId /\ after[k].id = p) => occurrences(after[k].childIds, id) = 1
    /\ p = NoId =>
          /\ \A k \in 1..Len(after) : after[k].id = id => after[k].parentId = NoId
          /\ \A k \in 1..Len(after) : occurrences(after[k].childIds, id) = 0

\* C16: a step that is a moveShapeToParent(id, p), or an updateShape(id,
\* {parentId: p}) with a parent p, on a shape in the store whose parent is
\* not p, moves the membership of id from the old parent to p
C16_MembershipMoves ==
    [][\A id \in Issued, p \in {NoId} \cup Issued :
          LET i == findIndex(shapes, id)
              m == moveShapeToParent(Store, id, p)
              u == updateShape(Store, id, [parentId |-> p])
          IN  (/\ i # 0 /\ shapes[i].parentId # p /\ last'.out = "acted"
               /\ \/ last'.op = "moveShapeToParent" /\ m.ok /\ shapes' = m.store.shapes
                  \/ last'.op = "updateShape" /\ p # NoId /\ u.ok /\ shapes' = u.store.shapes)
              => membershipMoved(shapes', id, shapes[i].parentId, p)]_vars

(* ------------------------------------------------------------------ *)
(* C17, C20: addShape                                                  *)
(* ------------------------------------------------------------------ *)

\* an id that generateId hands out to no call of the model
CallerId == MaxIds + 1

\* a zIndex above every zIndex that getNextZIndex computes in the model
CallerZIndex == MaxIds + 3

\* a zIndex below 0
LowZIndex == 0 - CallerZIndex

\* partial shapes with and without an id, a zIndex and a parent
AddShapes ==
    {[type |-> "rectangle", parentId |-> q] : q \in {NoId} \cup Issued}
        \cup {[type |-> "rectangle", parentId |-> q, id |-> CallerId] :
                    q \in {NoId} \cup Issued}
        \cup {[type |-> "rectangle", parentId |-> q, zIndex |-> z] :
                    q \in {NoId} \cup Issued, z \in {CallerZIndex, LowZIndex}}

NextAdd ==
    \/ \E p \in AddShapes : AddShape(p)
    \/ \E id \in Issued : DeleteShape(id)

SpecAdd == Init /\ [][NextAdd]_vars

\* C17: after addShape, the id returned is the id of the shape appended to
\* the store, and it is the id of the partial shape when that carries one
C17_KeepsSuppliedId ==
    (last.op = "addShape" /\ last.out = "acted") =>
        /\ last.id = shapes[Len(shapes)].id
        /\ last.ret # <<>> => shapes[Len(shapes)].id = last.ret[1]

(* ------------------------------------------------------------------ *)
(* C18: createFrame                                                    *)
(* ------------------------------------------------------------------ *)

\* C18: a createFrame step appends one shape to the shapes it found, a
\* frame that is a container with no children, clipContent and no
\* autoResize, under a new id, and selectedShapeId is that id
C18_FrameSelected ==
    [][(last'.op = "createFrame" /\ last'.out = "acted") =>
          /\ Len(shapes') = Len(shapes) + 1
          /\ \A k \in 1..Len(shapes) : shapes'[k] = shapes[k]
          /\ LET n == shapes'[Len(shapes')]
             IN  /\ n.type = "frame" /\ n.isContainer /\ n.childIds = <<>>
                 /\ n.clipContent /\ ~n.autoResize
                 /\ n.id \notin idsOf(shapes)
                 /\ selectedShapeId' = n.id]_vars

(* ------------------------------------------------------------------ *)
(* C19: duplicateSelectedShapes                                        *)
(* ------------------------------------------------------------------ *)

\* the place in the list of the first element with the id, 0 if none
placeOf(list, id) ==
    IF \E j \in 1..Len(list) : list[j].id = id
    THEN CHOOSE j \in 1..Len(list) : list[j].id = id /\ \A i \in 1..(j - 1) : list[i].id # id
    ELSE 0

\* C19: a duplicateSelectedShapes step appends one shape under a new id
\* for each selected shape of the store, selectedShapeIds becomes the set
\* of those new ids, the copy of a shape whose parent was selected too has
\* the parent's copy as its parentId, and the childIds of a copy are the
\* ids of the copies of the selected children of its original
C19_CopiesLinked ==
    [][(last'.op = "duplicateSelectedShapes" /\ last'.out = "acted") =>
          LET originals == SelectSeq(shapes, LAMBDA o : o.id \in Range(selectedShapeIds))
              n == Len(originals)
              copy(j) == shapes'[Len(shapes) + j]
              copyId(id) == copy(placeOf(originals, id)).id
          IN  /\ Len(shapes') = Len(shapes) + n
              /\ \A j \in 1..n : copy(j).id \notin idsOf(shapes)
              /\ Cardinality({copy(j).id : j \in 1..n}) = n
              /\ Range(selectedShapeIds') = {copy(j).id : j \in 1..n}
              /\ \A j \in 1..n :
                    placeOf(originals, originals[j].parentId) # 0 =>
                        copy(j).parentId = copyId(originals[j].parentId)
              /\ \A j \in 1..n :
                    Range(copy(j).childIds) =
                        {copyId(c) : c \in {d \in Range(originals[j].childIds) :
                                                placeOf(originals, d) # 0}}]_vars

\* the zIndexes of the shapes in the list
zIndexesOf(shps) == {shps[k].zIndex : k \in 1..Len(shps)}

\* C20: a step that is an addShape(p) gives the appended shape, when p
\* carries no zIndex, the zIndex one above the highest of 0 and the
\* zIndexes of the shapes found, and appends its id to the childIds of the
\* shape that p names as its parent
C20_NextZIndexAndParent ==
    [][\A p \in AddShapes :
          (/\ last'.op = "addShape" /\ last'.out = "acted"
           /\ shapes' = addShape(Store, p).shapes) =>
              LET n == shapes'[Len(shapes')]
              IN  /\ ~Has(p, "zIndex") => n.zIndex = MaxOf({0} \cup zIndexesOf(shapes)) + 1
                  /\ \A k \in 1..Len(shapes) :
                        shapes[k].id = p.parentId =>
                            shapes'[k].childIds = Append(shapes[k].childIds, n.id)]_vars

\* C20 as stated: the zIndex is one above the highest zIndex of the shapes
\* found, whatever its sign
C20_AboveMaximum ==
    [][\A p \in AddShapes :
          (/\ last'.op = "addShape" /\ last'.out = "acted"
           /\ shapes' = addShape(Store, p).shapes
           /\ shapes # <<>> /\ ~Has(p, "zIndex")) =>
              shapes'[Len(shapes')].zIndex = MaxOf(zIndexesOf(shapes)) + 1]_vars

\* C20 witness: addShape has put a second child behind the first in its
\* parent's childIds, with a zIndex one above a zIndex the caller chose
C20_Witness ==
    /\ last.op = "addShape" /\ last.out = "acted"
    /\ Len(shapes) = 3
    /\ shapes[1].childIds = <<shapes[2].id, shapes[3].id>>
    /\ shapes[3].parentId = shapes[1].id
    /\ shapes[2].zIndex = CallerZIndex
    /\ shapes[3].zIndex = CallerZIndex + 1

(* ------------------------------------------------------------------ *)
(* C21: calls with an id that is not in the store                      *)
(* ------------------------------------------------------------------ *)

NextUnknown ==
    \/ \E p \in Rectangles : AddShape(p)
    \/ \E id \in OnCanvas, h \in Handles :
           StartResizing(id, h, [x |-> 0, y |-> 0], boundsOf(shapeAt(id)))
    \/ GetFlattenedShapes
    \/ TimerFires
    \/ \E id \in Issued : DeleteShape(id)
    \/ \E id \in Issued, patch \in MovePatches \cup ParentPatches : UpdateShape(id, patch)
    \/ \E id \in Issued, q \in {NoId} \cup Issued : MoveShapeToParent(id, q)

SpecUnknown == Init /\ [][NextUnknown]_vars

\* C21: in every state, an updateShape, deleteShape or moveShapeToParent
\* with an id handed out earlier that is the id of no shape in the store
\* returns without an error and with the store it found: shapes,
\* selection, gesture state and cache
C21_UnknownIdNoEffect ==
    \A id \in Issued \ OnCanvas :
        /\ \A patch \in MovePatches \cup ParentPatches :
              updateShape(Store, id, patch) = [ok |-> TRUE, store |-> Store]
        /\ deleteShape(Store, id) = [ok |-> TRUE, store |-> Store]
        /\ \A q \in {NoId} \cup Issued :
              moveShapeToParent(Store, id, q) = [ok |-> TRUE, store |-> Store]

\* C21 witness: an updateShape with the id of a deleted shape has returned
\* while another shape is selected and held by a gesture
C21_Witness ==
    /\ last.op = "updateShape" /\ last.out = "skipped"
    /\ shapes # <<>> /\ selectedShapeId \in OnCanvas
    /\ selectionState.activeHandle # "none"
    /\ selectionState.selectedShapeId \in OnCanvas

(* ------------------------------------------------------------------ *)
(* C22: createGroup and ungroup that are refused                       *)
(* ------------------------------------------------------------------ *)

\* selections of one id twice, besides those of at most two ids
RejectSelections == Selections \cup {<<a, a>> : a \in Issued}

NextReject ==
    \/ \E p \in PlainShapes : AddShape(p)
    \/ \E ids \in RejectSelections : SetSelectedShapeIds(ids)
    \/ \E id \in Issued : DeleteShape(id)
    \/ CreateGroup
    \/ \E id \in Issued : Ungroup(id)

SpecReject == Init /\ [][NextReject]_vars

\* the shapes of the store that selectedShapeIds names
selectedShapes == {shapes[k] : k \in {j \in 1..Len(shapes) : shapes[j].id \in Range(selectedShapeIds)}}

\* C22: in every state, createGroup returns the store it found when fewer
\* than two shapes of the store are selected or a selected shape has a
\* parentId, and ungroup(id) does when id is the id of no shape, of a
\* shape that is not a container, or of a container with no childIds
C22_RefusedNoEffect ==
    /\ (Cardinality(selectedShapes) < 2 \/ \E sh \in selectedShapes : sh.parentId # NoId)
            => createGroup(Store) = Store
    /\ \A id \in Issued :
            (\/ id \notin OnCanvas
             \/ ~shapeAt(id).isContainer
             \/ shapeAt(id).childIds = <<>>) => ungroup(Store, id) = Store

\* C22 witness: createGroup has returned with two shapes selected, one of
\* them the child of the other
C22_Witness ==
    /\ last.op = "createGroup" /\ last.out = "skipped"
    /\ Cardinality(selectedShapes) = 2
    /\ \E sh \in selectedShapes : sh.parentId \in {o.id : o \in selectedShapes}

(* ------------------------------------------------------------------ *)
(* C23: reorderShapes                                                  *)
(* ------------------------------------------------------------------ *)

\* lists of up to three different ids, on the canvas or not
OrderLists ==
    {<<a>> : a \in Issued}
        \cup {<<q[1], q[2]>> : q \in {r \in Issued \X Issued : r[1] # r[2]}}
        \cup {<<q[1], q[2], q[3]>> :
                  q \in {r \in Issued \X Issued \X Issued :
                             r[1] # r[2] /\ r[1] # r[3] /\ r[2] # r[3]}}

NextOrder ==
    \/ \E p \in Rectangles : AddShape(p)
    \/ \E id \in Issued : DeleteShape(id)
    \/ \E o \in Orders : ReorderShapes(o)

SpecOrder == Init /\ [][NextOrder]_vars

geometryOf(s) == <<s.x, s.y, s.width, s.height, s.rotation>>

\* C24: in every state, an updateShape(id, {parentId: p}) that returns
\* leaves x, y, width, height and rotation of the shape id and of every
\* shape reachable from it through childIds as they were
C24_ReparentKeepsGeometry ==
    \A id \in OnCanvas, patch \in ParentPatches :
        LET r  == updateShape(Store, id, patch)
            ds == reachable(shapes, {id}, Len(shapes))
        IN  r.ok => \A k \in 1..Len(shapes) :
                        shapes[k].id \in ds =>
                            geometryOf(r.store.shapes[k]) = geometryOf(shapes[k])

(* ------------------------------------------------------------------ *)
(* C25: the gesture state machine                                      *)
(* ------------------------------------------------------------------ *)

\* places of the mouse
GesturePoints == {[x |-> 0, y |-> 0], [x |-> 20, y |-> -10]}

\* bounds handed to startResizing: those of a shape of the store, or others
GestureBounds ==
    {boundsOf(shapes[k]) : k \in 1..Len(shapes)}
        \cup {[x |-> 5, y |-> 5, width |-> 30, height |-> 40]}

\* C25: in every state, startResizing leaves the gesture with exactly the
\* id, handle, mouse position and bounds it was given, whatever anchor was
\* there; endResizing leaves it with no handle, no mouse position and no
\* bounds; and while there is no handle resizeSelectedShape leaves the
\* shapes as they are
C25_GestureMachine ==
    /\ \A id \in Issued, h \in AllHandles, m \in GesturePoints, b \in GestureBounds :
           startResizing(Store, id, h, m, b).selectionState =
               [selectedShapeId |-> id, activeHandle |-> h,
                initialMousePos |-> <<m>>, initialShapeBounds |-> <<b>>]
    /\ LET g == endResizing(Store).selectionState
       IN  g.activeHandle = "none" /\ g.initialMousePos = <<>> /\ g.initialShapeBounds = <<>>
    /\ selectionState.activeHandle = "none" =>
           \A m \in GesturePoints, lock \in BOOLEAN :
               resizeSelectedShape(Store, m, lock).shapes = shapes

\* C25 witness: a gesture on a shape of the store has changed it and has
\* ended, and a resizeSelectedShape after that has been refused
C25_Witness ==
    /\ last.op = "resizeSelectedShape" /\ last.out = "skipped"
    /\ selectionState.activeHandle = "none"
    /\ selectionState.selectedShapeId = selectedShapeId
    /\ selectedShapeId \in OnCanvas
    /\ shapeAt(selectedShapeId).width = 40

(* ------------------------------------------------------------------ *)
(* C26: the range of rotation                                          *)
(* ------------------------------------------------------------------ *)

\* rectangles and frames with a rotation in [0, 360)
RotationShapes ==
    {[type |-> ty, x |-> 0, y |-> 0, width |-> 10, height |-> 10, rotation |-> r,
      isContainer |-> (ty = "frame"), parentId |-> q] :
        ty \in {"rectangle", "frame"}, r \in {0, 270}, q \in {NoId} \cup Issued}

\* patches of the rotation, to values in [0, 360)
RotationPatches == {[rotation |-> r] : r \in {0, 180}}

NextRotation ==
    \/ \E p \in RotationShapes : AddShape(p)
    \/ \E id \in Issued, patch \in RotationPatches : UpdateShape(id, patch)

SpecRotation == Init /\ [][NextRotation]_vars

\* C26: in every state the rotation of every shape is at least 0 and
\* less than 360
C26_RotationInRange ==
    \A k \in 1..Len(shapes) : 0 <= shapes[k].rotation /\ shapes[k].rotation < 360

(* ------------------------------------------------------------------ *)
(* C27: gestures on locked shapes                                      *)
(* ------------------------------------------------------------------ *)

\* a square rectangle at the origin, locked or not
LockedShapes ==
    {[type |-> "rectangle", x |-> 0, y |-> 0, width |-> 20, height |-> 20,
      parentId |-> NoId, isLocked |-> l] : l \in BOOLEAN}

\* the gesture as SelectionControls drives it, on shapes that may be locked
NextLocked ==
    \/ \E p \in LockedShapes : AddShape(p)
    \/ \E id \in OnCanvas : SetSelectedShapeId(id)
    \/ \E h \in Handles :
           /\ selectedShapeId \in OnCanvas
           /\ StartResizing(selectedShapeId, h,
                            grabPoint(boundsOf(shapeAt(selectedShapeId))),
                            boundsOf(shapeAt(selectedShapeId)))
    \/ \E m \in Mice : ResizeSelectedShape(m, FALSE)
    \/ EndResizing

SpecLocked == Init /\ [][NextLocked]_vars

\* C27: a step that is a resizeSelectedShape leaves x, y, width, height
\* and rotation of every shape with isLocked as they were
C27_LockedUntouched ==
    [][last'.op = "resizeSelectedShape" =>
          \A k \in 1..Len(shapes) :
              shapes[k].isLocked => geometryOf(shapes'[k]) = geometryOf(shapes[k])]_vars

(* ------------------------------------------------------------------ *)
(* C28: the store writes of the batch operations                       *)
(* ------------------------------------------------------------------ *)

\* The stores a call hands to set, in order. deleteShape: none when the
\* shape is not found (line 935) or getDescendantIds throws, else the one
\* of lines 963-973.
setsOfDeleteShape(S, id) ==
    LET r == deleteShape(S, id)
    IN  IF findIndex(S.shapes, id) = 0 \/ ~r.ok THEN <<>> ELSE <<r.store>>

\* a createGroup that writes the group first and the children after
setsOfCreateGroup_twice(S) ==
    LET G == createGroup(S)
    IN  IF G.nextId = S.nextId THEN <<>>
        ELSE <<[G EXCEPT !.shapes = [k \in 1..Len(G.shapes) |->
                            IF k <= Len(S.shapes) THEN S.shapes[k] ELSE G.shapes[k]]],
               G>>

\* createGroup: none when a guard returns (lines 1127-1135), else the one
\* of lines 1182-1190
setsOfCreateGroup(S) ==
    IF createGroup(S).nextId = S.nextId THEN <<>> ELSE <<createGroup(S)>>

\* ungroup: none when the guard returns (line 1198), else the one of lines
\* 1213-1222
setsOfUngroup(S, groupId) ==
    IF canUngroup(S.shapes, groupId) THEN <<ungroup(S, groupId)>> ELSE <<>>

\* updateShape: the whole method is the updater of one set (line 706);
\* none when the cascade throws inside it
setsOfUpdateShape(S, id, patch) ==
    LET r == updateShape(S, id, patch)
    IN  IF r.ok THEN <<r.store>> ELSE <<>>

\* a frame, and rectangles at the root or in a shape of the store
BatchShapes ==
    {[type |-> "frame", x |-> 0, y |-> 0, width |-> 10, height |-> 10,
      isContainer |-> TRUE, parentId |-> NoId]}
        \cup {[type |-> "rectangle", x |-> 0, y |-> 0, width |-> 10, height |-> 10,
                isContainer |-> FALSE, parentId |-> q] : q \in {NoId} \cup OnCanvas}

\* selections of two shapes of the store
BatchSelections == {ids \in Selections : Len(ids) = 2 /\ Range(ids) \subseteq OnCanvas}

BatchPatches == ParentPatches \cup MovePatches

NextBatch ==
    \/ \E p \in BatchShapes : AddShape(p)
    \/ \E ids \in BatchSelections : SetSelectedShapeIds(ids)
    \/ CreateGroup
    \/ \E id \in OnCanvas : Ungroup(id)
    \/ \E id \in OnCanvas : DeleteShape(id)
    \/ \E id \in OnCanvas, patch \in ParentPatches :
           /\ patch.parentId \in {NoId} \cup OnCanvas
           /\ UpdateShape(id, patch)

SpecBatch == Init /\ [][NextBatch]_vars

\* the ids getDescendantIds collects below id
descendantsOf(S, id) ==
    Range(collectDescendants(S.shapes,
              [k \in 1..Len(shapeOf(S.shapes, id).childIds) |->
                  <<shapeOf(S.shapes, id).childIds[k], 1>>], <<>>).ids)

\* C28: in every state, each of deleteShape, createGroup, ungroup and
\* updateShape hands at most one store to set, and that store holds the
\* whole batch: the deleted shape and the descendants collected for it are
\* gone; the group is there and every grouped shape names it as parent;
\* the ungrouped group is gone and no shape names it as parent; the
\* patched shape has the patch, and with a new parent of the store it is
\* in that parent's childIds
C28_OneWrite ==
    /\ \A id \in Issued :
           LET W == setsOfDeleteShape(Store, id)
           IN  /\ Len(W) <= 1
               /\ Len(W) = 1 =>
                      /\ idsOf(W[1].shapes) \cap ({id} \cup descendantsOf(Store, id)) = {}
    /\ LET W == setsOfCreateGroup(Store)
       IN  /\ Len(W) <= 1
           /\ Len(W) = 1 =>
                  /\ nextId \in idsOf(W[1].shapes)
                  /\ \A k \in 1..Len(W[1].shapes) :
                         W[1].shapes[k].id \in Range(selectedShapeIds) =>
                             W[1].shapes[k].parentId = nextId
    /\ \A id \in Issued :
           LET W == setsOfUngroup(Store, id)
           IN  /\ Len(W) <= 1
               /\ Len(W) = 1 =>
                      /\ \A k \in 1..Len(W[1].shapes) :
                             W[1].shapes[k].id # id /\ W[1].shapes[k].parentId # id
    /\ \A id \in OnCanvas, patch \in BatchPatches :
           LET W == setsOfUpdateShape(Store, id, patch)
           IN  /\ Len(W) <= 1
               /\ Len(W) = 1 =>
                      /\ Has(patch, "parentId") =>
                             /\ shapeOf(W[1].shapes, id).parentId = patch.parentId
                             /\ (patch.parentId \in OnCanvas
                                   /\ patch.parentId # shapeAt(id).parentId) =>
                                    id \in Range(shapeOf(W[1].shapes, patch.parentId).childIds)

\* C28 witness: a deleteShape has removed a shape together with a
\* descendant
C28_Witness ==
    /\ last.op = "deleteShape" /\ last.out = "acted"
    /\ Len(shapes) + 2 <= Len(last.pre[1].shapes)
    /\ shapes # <<>>

(* ------------------------------------------------------------------ *)
(* C29: numbers that are none                                          *)
(* ------------------------------------------------------------------ *)

\* anchor bounds with and without a width, with and without a height
ZeroBounds == {[x |-> 0, y |-> 0, width |-> w, height |-> h] : w \in {0, 20}, h \in {0, 20}}

\* a gesture with every handle that resizes, on a rectangle, from anchor
\* bounds that may be empty, with and without maintainAspectRatio
NextAspect ==
    \/ \E p \in Rectangles : AddShape(p)
    \/ \E h \in AllHandles \ {"rotate"}, b \in ZeroBounds :
           /\ selectedShapeId \in OnCanvas
           /\ StartResizing(selectedShapeId, h, grabPoint(b), b)
    \/ \E m \in Mice, lock \in BOOLEAN :
           /\ lock => wholeAspect(m)
           /\ ResizeSelectedShape(m, lock)
    \/ EndResizing

SpecAspect == Init /\ [][NextAspect]_vars

\* C29: after every resizeSelectedShape that is no rotation, x, y, width
\* and height of every shape are finite numbers
C29_FiniteBounds ==
    (last.op = "resizeSelectedShape" /\ selectionState.activeHandle # "rotate") =>
        \A k \in 1..Len(shapes) :
            /\ isFinite(shapes[k].x) /\ isFinite(shapes[k].y)
            /\ isFinite(shapes[k].width) /\ isFinite(shapes[k].height)

(* ------------------------------------------------------------------ *)
(* C30: parents are containers of the store                            *)
(* ------------------------------------------------------------------ *)

\* C30: in every state, the parentId of every shape that has one is the id
\* of a shape of the store with isContainer, and every shape with childIds
\* has isContainer
C30_ParentsAreContainers ==
    \A k \in 1..Len(shapes) :
        /\ shapes[k].parentId # NoId =>
               /\ shapes[k].parentId \in OnCanvas
               /\ shapeAt(shapes[k].parentId).isContainer
        /\ shapes[k].childIds # <<>> => shapes[k].isContainer

(* ------------------------------------------------------------------ *)
(* C31: the shape a gesture edits                                      *)
(* ------------------------------------------------------------------ *)

\* C31: a step that is a resizeSelectedShape during a gesture leaves x, y,
\* width, height and rotation of every shape other than the one
\* startResizing was given as they were
C31_OnlyGestureShape ==
    [][(last'.op = "resizeSelectedShape" /\ selectionState.activeHandle # "none") =>
          \A k \in 1..Len(shapes) :
              shapes[k].id # selectionState.selectedShapeId =>
                  geometryOf(shapes'[k]) = geometryOf(shapes[k])]_vars

(* ------------------------------------------------------------------ *)
(* C32: the side opposite to the handle                                *)
(* ------------------------------------------------------------------ *)

\* C32: after a resizeSelectedShape without aspect lock that wrote the
\* bounds of a shape that is no line, the right edge is the anchor's when
\* the handle is on the left and x is the anchor's otherwise, and the
\* bottom edge is the anchor's when the handle is on the top and y is the
\* anchor's otherwise
C32_OppositeSideFixed ==
    (last.op = "resizeSelectedShape" /\ last.out = "acted"
        /\ selectionState.activeHandle # "rotate"
        /\ ~last.ret[1].lock
        /\ shapeAt(last.id).type # "line") =>
        LET s == shapeAt(last.id)
            b == selectionState.initialShapeBounds[1]
            h == selectionState.activeHandle
        IN  /\ IF h \in {"left", "top-left", "bottom-left"}
               THEN add(s.x, s.width) = add(b.x, b.width)
               ELSE s.x = b.x
            /\ IF h \in {"top", "top-left", "top-right"}
               THEN add(s.y, s.height) = add(b.y, b.height)
               ELSE s.y = b.y

(* ------------------------------------------------------------------ *)
(* C33: the endpoints of a line                                        *)
(* ------------------------------------------------------------------ *)

finiteBounds(b) == isFinite(b.x) /\ isFinite(b.y) /\ isFinite(b.width) /\ isFinite(b.height)

\* C33: after a resizeSelectedShape that wrote the bounds of a line from
\* finite anchor bounds, with top-left the start point is the anchor's
\* moved by the mouse delta and the end point is the anchor's; with
\* bottom-right the start point is the anchor's and the end point is the
\* anchor's moved by the mouse delta; with every other handle but rotate
\* the bounds are the anchor bounds
C33_LineEndpoints ==
    (last.op = "resizeSelectedShape" /\ last.out = "acted"
        /\ selectionState.activeHandle # "rotate"
        /\ shapeAt(last.id).type = "line"
        /\ finiteBounds(selectionState.initialShapeBounds[1])) =>
        LET s  == shapeAt(last.id)
            b  == selectionState.initialShapeBounds[1]
            h  == selectionState.activeHandle
            dx == last.ret[1].mouse.x - selectionState.initialMousePos[1].x
            dy == last.ret[1].mouse.y - selectionState.initialMousePos[1].y
        IN  CASE h = "top-left" ->
                    /\ s.x = b.x + dx /\ s.y = b.y + dy
                    /\ s.x + s.width = b.x + b.width
                    /\ s.y + s.height = b.y + b.height
              [] h = "bottom-right" ->
                    /\ s.x = b.x /\ s.y = b.y
                    /\ s.x + s.width = b.x + b.width + dx
                    /\ s.y + s.height = b.y + b.height + dy
              [] OTHER -> boundsOf(s) = b

\* C33 witness: the start point of a line has been dragged down to the
\* height of its end point
C33_Witness ==
    /\ last.op = "resizeSelectedShape" /\ last.out = "acted"
    /\ selectionState.activeHandle = "top-left"
    /\ shapeAt(last.id).type = "line"
    /\ shapeAt(last.id).height = 0 /\ shapeAt(last.id).width = 40

(* ------------------------------------------------------------------ *)
(* C34: the rotate gesture                                             *)
(* ------------------------------------------------------------------ *)

\* the angle of a mouse position seen from the centre of the bounds
angleAt(b, m) ==
    calculateRotationAngle([x |-> b.x + b.width \div 2, y |-> b.y + b.height \div 2], m)

\* C34: after any number of rotate moves in a row, from finite anchor
\* bounds with a whole centre and a finite rotation, the gesture's
\* initialMousePos is the last mouse position, its initialShapeBounds are
\* those the moves started with, and the rotation of the shape is, modulo
\* 360, the rotation it had before the moves plus the angle of the last
\* mouse position less the angle of the mouse position the moves started
\* from
C34_RotationTelescopes ==
    (last.op = "resizeSelectedShape" /\ last.out = "acted"
        /\ selectionState.activeHandle = "rotate"
        /\ finiteBounds(last.pre[1].selectionState.initialShapeBounds[1])
        /\ wholeCenter(last.pre[1].selectionState.initialShapeBounds[1])
        /\ isFinite(shapeOf(last.pre[1].shapes, last.id).rotation)) =>
        LET pre == last.pre[1]
            b   == pre.selectionState.initialShapeBounds[1]
            m   == last.ret[1].mouse
        IN  /\ selectionState.initialMousePos = <<m>>
            /\ selectionState.initialShapeBounds = <<b>>
            /\ shapeAt(last.id).rotation =
                   (shapeOf(pre.shapes, last.id).rotation
                       + angleAt(b, m)
                       - angleAt(b, pre.selectionState.initialMousePos[1])) % 360

\* C34 witness: a second rotate move in a row has turned the shape back
\* by more than the first had turned it on
C34_Witness ==
    /\ last.op = "resizeSelectedShape" /\ last.out = "acted"
    /\ selectionState.activeHandle = "rotate"
    /\ last.ret[1].move = 2
    /\ shapeOf(last.pre[1].shapes, last.id).rotation = 0
    /\ shapeAt(last.id).rotation = 315

(* ------------------------------------------------------------------ *)
(* C35: ungroup of a turned group                                      *)
(* ------------------------------------------------------------------ *)

\* containers are added, turned by a quarter turn, and ungrouped
NextTurned ==
    \/ \E p \in ContainerShapes : AddShape(p)
    \/ \E id \in OnCanvas, patch \in {[rotation |-> 90]} : UpdateShape(id, patch)
    \/ \E id \in OnCanvas : Ungroup(id)

SpecTurned == Init /\ [][NextTurned]_vars

\* C35: in every state, ungroup of a root container with children and a
\* rotation other than 0 leaves every shape that named it as parent at
\* the container's position plus the shape's local offset rotated by the
\* container's rotation
C35_UngroupKeepsPlace ==
    \A id \in OnCanvas :
        LET g == shapeAt(id)
            U == ungroup(Store, id).shapes
        IN  (canUngroup(shapes, id) /\ g.parentId = NoId /\ g.rotation % 360 # 0) =>
                \A k \in 1..Len(shapes) :
                    shapes[k].parentId = id =>
                        LET c == shapes[k]
                            after == shapeOf(U, c.id)
                        IN  /\ after.x = g.x + c.x * cosd(g.rotation) - c.y * sind(g.rotation)
                            /\ after.y = g.y + c.x * sind(g.rotation) + c.y * cosd(g.rotation)

(* ------------------------------------------------------------------ *)
(* C36: the walks over childIds and parentId                           *)
(* ------------------------------------------------------------------ *)

\* getPathToRoot (lines 614-627). walk is the while loop (lines 619-624)
\* with the ids pushed so far: more pushes than there are shapes, and one
\* for an id that names no shape, mean the parentId links have come back
\* to a shape, and the loop never ends (ok = FALSE). The path returned is
\* result.reverse().
getPathToRoot(shps, id) ==
    LET RECURSIVE walk(_, _)
        walk(currentId, result) ==
            IF currentId = NoId THEN [ok |-> TRUE, path |-> result]
            ELSE IF Len(result) > Len(shps) + 1 THEN [ok |-> FALSE, path |-> result]
            ELSE LET i == findIndex(shps, currentId)
                 IN  IF i = 0 \/ shps[i].parentId = NoId
                     THEN [ok |-> TRUE, path |-> Append(result, currentId)]
                     ELSE walk(shps[i].parentId, Append(result, currentId))
        w == walk(id, <<>>)
    IN  [ok |-> w.ok, path |-> [k \in 1..Len(w.path) |-> w.path[Len(w.path) + 1 - k]]]

\* a call of getPathToRoot: it returns the path, or it never returns and
\* no call comes after it
GetPathToRoot(id) ==
    LET r == getPathToRoot(shapes, id)
    IN  /\ CanCall
        /\ UNCHANGED <<shapes, selectedShapeId, selectedShapeIds, selectionState,
                       cache, timers, nextId>>
        /\ calls' = IF r.ok THEN calls + 1 ELSE MaxCalls
        /\ last' = [op |-> "getPathToRoot", id |-> id,
                    out |-> IF r.ok THEN "acted" ELSE "hung",
                    pre |-> <<>>, ret |-> IF r.ok THEN r.path ELSE <<>>]

NextWalk ==
    \/ \E p \in PlainShapes : AddShape(p)
    \/ \E id \in Issued, patch \in ParentPatches : UpdateShape(id, patch)
    \/ \E id \in Issued : DeleteShape(id)
    \/ \E id \in Issued : GetPathToRoot(id)
    \/ GetFlattenedShapes
    \/ TimerFires

SpecWalk == Init /\ [][NextWalk]_vars

\* C36: in every state and for every id, getDescendantIds, getPathToRoot,
\* the recomputation of getFlattenedShapes and deleteShape come to an end
\* of their own
C36_WalksTerminate ==
    /\ flatten(shapes).ok
    /\ \A id \in Issued :
           /\ getDescendantIds(shapes, id).ok
           /\ getPathToRoot(shapes, id).ok
           /\ deleteShape(Store, id).ok

(* ------------------------------------------------------------------ *)
(* C37: every shape once in the flattened list                         *)
(* ------------------------------------------------------------------ *)

\* C37: the list a recomputing getFlattenedShapes returns holds every
\* shape of the store at exactly one place
C37_EveryShapeOnce ==
    (last.op = "getFlattenedShapes" /\ last.out = "acted") =>
        \A id \in OnCanvas : Cardinality(placesOf(idList(last.ret), id)) = 1

(* ------------------------------------------------------------------ *)
(* C38: zIndex among siblings                                          *)
(* ------------------------------------------------------------------ *)

\* shapes are added without a zIndex; selecting is what createGroup needs
NextStack ==
    \/ \E p \in PlainShapes : AddShape(p)
    \/ \E params \in FrameParams : CreateFrame(params)
    \/ \E ids \in Selections : SetSelectedShapeIds(ids)
    \/ CreateGroup
    \/ \E id \in OnCanvas : Ungroup(id)

SpecStack == Init /\ [][NextStack]_vars

\* C38: in every state, two different shapes with the same parentId, or
\* both without one, have different zIndex
C38_SiblingsDiffer ==
    \A i, j \in 1..Len(shapes) :
        (i # j /\ shapes[i].parentId = shapes[j].parentId) =>
            shapes[i].zIndex # shapes[j].zIndex

(* ------------------------------------------------------------------ *)
(* C39: deleteSelectedShapes                                           *)
(* ------------------------------------------------------------------ *)

\* deleteSelectedShapes (lines 977-995). rootShapesToDelete (lines 984-991)
\* is the selected ids whose shape has no parentId, or a parentId that is
\* not selected, or is not in the store. forEach (line 994) calls deleteShape
\* for each id in turn, each on the store the one before left; a
\* deleteShape that throws ends the loop and the writes made before it stay.
deleteSelectedShapes(S) ==
    LET rootShapesToDelete ==
            SelectSeq(S.selectedShapeIds,
                      LAMBDA id :
                          LET i == findIndex(S.shapes, id)
                          IN  IF i = 0 THEN TRUE
                              ELSE \/ S.shapes[i].parentId = NoId
                                   \/ S.shapes[i].parentId \notin Range(S.selectedShapeIds))
        RECURSIVE forEach(_, _)
        forEach(T, ids) ==
            IF ids = <<>> THEN [ok |-> TRUE, store |-> T]
            ELSE LET r == deleteShape(T, Head(ids))
                 IN  IF ~r.ok THEN [ok |-> FALSE, store |-> T]
                     ELSE forEach(r.store, Tail(ids))
    IN  forEach(S, rootShapesToDelete)

DeleteSelectedShapes ==
    LET r == deleteSelectedShapes(Store)
    IN  /\ CanCall
        /\ Commit(r.store)
        /\ UNCHANGED timers
        /\ Called("deleteSelectedShapes", NoId,
                  outcome(selectedShapeIds # <<>>, r.ok), <<Store>>, <<>>)

NextDeleteSelected ==
    \/ \E p \in PlainShapes : AddShape(p)
    \/ \E ids \in Selections : SetSelectedShapeIds(ids)
    \/ \E id \in Issued, q \in {NoId} \cup Issued : MoveShapeToParent(id, q)
    \/ DeleteSelectedShapes

SpecDeleteSelected == Init /\ [][NextDeleteSelected]_vars

\* C39: after a deleteSelectedShapes that returned, no shape that was
\* selected or reachable from a selected shape through childIds is in the
\* store, every other shape is, and selectedShapeIds is empty
C39_SelectionDeleted ==
    (last.op = "deleteSelectedShapes" /\ last.out # "threw") =>
        LET pre  == last.pre[1]
            gone == reachable(pre.shapes, Range(pre.selectedShapeIds), Len(pre.shapes))
        IN  /\ idsOf(shapes) = idsOf(pre.shapes) \ gone
            /\ selectedShapeIds = <<>>

====
